---- MODULE Spec2Model ----
(***************************************************************************)
(* Storage reconciliation and stable-identifier allocation of the Final    *)
(* Archive backend: the catalog (prisma.image), the identifier allocator   *)
(* (IdGenerator), the reconciliation job (runSync), the webhook handler    *)
(* (processKey) and the admin writers (upload, delete, activate,           *)
(* deactivate), each handler split at its awaits.                          *)
(***************************************************************************)
EXTENDS Integers, Sequences, FiniteSets, TLC

(***************************************************************************)
(* Bounds of the model.                                                    *)
(***************************************************************************)
\* Math.random draws are taken from 0..MaxNum instead of 0..99999
MaxNum == 1
\* admin deletes of a row in one behaviour
MaxRetired == 1

(***************************************************************************)
(* Program constants.                                                      *)
(***************************************************************************)
maxRetries == 10
IdDigits == 5
IdSpace == 100000

\* env.R2_PREFIX (default '') and env.CDN_BASE_URL, as character sequences
R2_PREFIX == << >>
CDN_BASE_URL == <<"cdn">>

(***************************************************************************)
(* Strings are sequences of characters.                                    *)
(***************************************************************************)
UpperChars == <<"A", "B", "C", "D", "E", "F", "G", "H", "I", "J", "K", "L", "M",
                "N", "O", "P", "Q", "R", "S", "T", "U", "V", "W", "X", "Y", "Z">>
LowerChars == <<"a", "b", "c", "d", "e", "f", "g", "h", "i", "j", "k", "l", "m",
                "n", "o", "p", "q", "r", "s", "t", "u", "v", "w", "x", "y", "z">>

ToLowerChar(c) ==
    IF \E i \in 1..Len(UpperChars) : UpperChars[i] = c
    THEN LowerChars[CHOOSE i \in 1..Len(UpperChars) : UpperChars[i] = c]
    ELSE c

toLowerCase(s) == [i \in 1..Len(s) |-> ToLowerChar(s[i])]

endsWith(s, suf) ==
    /\ Len(s) >= Len(suf)
    /\ SubSeq(s, Len(s) - Len(suf) + 1, Len(s)) = suf

startsWith(s, pre) ==
    /\ Len(s) >= Len(pre)
    /\ SubSeq(s, 1, Len(pre)) = pre

\* the keys objects are stored under in the bucket
aJpg == <<"a", ".", "j", "p", "g">>
bMp4 == <<"b", ".", "m", "p", "4">>
cTxt == <<"c", ".", "t", "x", "t">>
dPlus == <<"d", "+", ".", "p", "n", "g">>
dSpace == <<"d", " ", ".", "p", "n", "g">>
BucketKeys == {aJpg, cTxt}

(***************************************************************************)
(* R2Service.getMediaType                                                  *)
(***************************************************************************)
imageExt == { <<".", "j", "p", "g">>, <<".", "j", "p", "e", "g">>,
              <<".", "p", "n", "g">>, <<".", "w", "e", "b", "p">>,
              <<".", "g", "i", "f">>, <<".", "a", "v", "i", "f">> }
videoExt == { <<".", "m", "p", "4">>, <<".", "w", "e", "b", "m">>,
              <<".", "m", "o", "v">> }

\* a classification without the null case
getMediaTypeNoNull(key) ==
    LET lowerKey == toLowerCase(key) IN
    IF \E ext \in imageExt : endsWith(lowerKey, ext) THEN "IMAGE"
    ELSE "VIDEO"

getMediaType(key) ==
    LET lowerKey == toLowerCase(key) IN
    IF \E ext \in imageExt : endsWith(lowerKey, ext) THEN "IMAGE"
    ELSE IF \E ext \in videoExt : endsWith(lowerKey, ext) THEN "VIDEO"
    ELSE "null"

(***************************************************************************)
(* IdGenerator.generateId: num.toString().padStart(5, '0')                 *)
(***************************************************************************)
DigitChars == <<"0", "1", "2", "3", "4", "5", "6", "7", "8", "9">>

RECURSIVE NumToString(_)
NumToString(n) ==
    IF n < 10 THEN <<DigitChars[n + 1]>>
    ELSE NumToString(n \div 10) \o <<DigitChars[(n % 10) + 1]>>

RECURSIVE padStart(_, _, _)
padStart(s, len, fill) ==
    IF Len(s) >= len THEN s ELSE padStart(<<fill>> \o s, len, fill)

\* the number a string of decimal digits stands for
RECURSIVE StringToNum(_)
StringToNum(s) ==
    IF s = << >> THEN 0
    ELSE StringToNum(SubSeq(s, 1, Len(s) - 1)) * 10
            + (CHOOSE d \in 0..9 : DigitChars[d + 1] = s[Len(s)])

\* an id without the padding
generateIdUnpadded(num) == NumToString(num)

generateId(num) == padStart(NumToString(num), IdDigits, "0")

Nums == {n \in 0..MaxNum : n < IdSpace}
Ids == {generateId(n) : n \in Nums}


(***************************************************************************)
(* State.  A handler runs without interruption from one await to the next; *)
(* pc[p] names the call that invocation p is awaiting, and each action is   *)
(* that call taking effect followed by the handler's code up to its next    *)
(* await.                                                                   *)
(***************************************************************************)
\* two invocations of runSync and of the webhook handler may overlap; the
\* second name of each pair is the invocation that starts while the first
\* is in flight
SyncProcs == {"pass1", "pass2"}
HookProcs == {"hook1", "hook2"}
UploadProc == "upload"
DeleteProc == "delete"
SeedProc == "seed"
RandomProc == "random"
Procs == SyncProcs \cup HookProcs
            \cup {UploadProc, DeleteProc, SeedProc, RandomProc}

VARIABLES
    images,        \* the catalog: the rows of prisma.image
    bucket,        \* keys of the objects now in the R2 bucket
    enabled,       \* env.ENABLE_R2_SYNC
    pc,            \* the call each invocation is awaiting, "idle" when none
    attempts,      \* createImageRecord: attempts
    arg,           \* createImageRecord: data
    sync,          \* locals of runSync
    hook,          \* locals of the webhook handler
    up,            \* locals of POST /upload
    del,           \* locals of DELETE /images/:id
    retired,       \* history: <<id, originalKey>> of every row deleted so far
    pub,           \* GET /images/random: the locals of the invocation
    authorization, \* the token the admin client sends as Authorization header
    ui,            \* the page in the browser: the state of App, LogoOverlay,
                   \*   GalleryRouteHandler and Gallery, and the address bar
    lastPass,      \* history: the last thing that happened is that a pass,
                   \*   isolated from its start on, returned ok
    last,          \* history: the turn of createImageRecord taken in the last
                   \*   step: the store's answer and what the call did with it
    result         \* history: what the last step handed to a caller: the
                   \*   SyncResult of runSync, or the reply of POST /webhook
                   \*   with the secret its request carried

vars == <<images, bucket, enabled, pc, attempts, arg, sync, hook, up, del,
          retired, ui, pub, authorization, lastPass, last, result>>

\* the page before anything has been loaded
NoUi == [route |-> ""]

NoData == [originalKey |-> << >>, url |-> << >>, mediaType |-> "null"]
NoLast == [status |-> "", err |-> "", out |-> ""]

\* nothing was handed to a caller
NoResult == [kind |-> "", code |-> 0, secret |-> "", ok |-> FALSE,
             skipped |-> FALSE, newCount |-> 0, deactivatedCount |-> 0,
             reactivatedCount |-> 0, at |-> "", id |-> << >>, body |-> {}]

\* GET /images/random: count and skip
NoPub == [count |-> 0, skip |-> 0]

\* a JWT: signed with JWT_SECRET or not, and the role of its payload; NoToken
\* is a request without Authorization header
NoToken == [signed |-> FALSE, role |-> "", expired |-> FALSE]

\* runSync: return { ok, skipped, newCount, deactivatedCount, reactivatedCount }
SyncResult(ok, skipped, newCount, deactivatedCount, reactivatedCount) ==
    [NoResult EXCEPT !.kind = "sync", !.ok = ok, !.skipped = skipped,
                     !.newCount = newCount,
                     !.deactivatedCount = deactivatedCount,
                     !.reactivatedCount = reactivatedCount]

\* runSync: the result of the catch block, with the call that threw
SyncFailed(at) == [SyncResult(FALSE, FALSE, 0, 0, 0) EXCEPT !.at = at]

\* POST /webhook: reply.code(code) to a request with this secret
Reply(code, secret) ==
    [NoResult EXCEPT !.kind = "webhook", !.code = code, !.secret = secret]

(***************************************************************************)
(* The catalog store (prisma.image).  The model Image has a unique index   *)
(* on id and a unique index on originalKey; isActive defaults to true and  *)
(* createdAt to the insertion time.                                        *)
(***************************************************************************)
RowsWithKey(imgs, key) == {r \in imgs : r.originalKey = key}
RowsWithId(imgs, id) == {r \in imgs : r.id = id}

\* a store without the unique index on id
ViolatedKeyOnly(imgs, id, key) ==
    {t \in {"originalKey"} : RowsWithKey(imgs, key) # {}}

\* a store without the unique index on originalKey
ViolatedIdOnly(imgs, id, key) ==
    {t \in {"id"} : RowsWithId(imgs, id) # {}}

\* the unique constraints an insert of <<id, key>> violates
Violated(imgs, id, key) ==
    {t \in {"id", "originalKey"} :
        \/ t = "id" /\ RowsWithId(imgs, id) # {}
        \/ t = "originalKey" /\ RowsWithKey(imgs, key) # {}}

\* prisma.image.create: "ok", the target of the P2002 unique violation the
\* store reports (one of the violated constraints), or another failure
PrismaCreateOutcomes(imgs, id, key) ==
    (IF Violated(imgs, id, key) = {} THEN {"ok"} ELSE Violated(imgs, id, key))
        \cup {"error"}

PrismaInsert(imgs, id, data) ==
    imgs \cup {[id |-> id, originalKey |-> data.originalKey, url |-> data.url,
                mediaType |-> data.mediaType, isActive |-> TRUE]}

\* deleteMany in the place of the update that clears isActive
UpdateManyByKeyDeleting(imgs, key, active) ==
    IF active
    THEN {IF r.originalKey = key THEN [r EXCEPT !.isActive = TRUE] ELSE r : r \in imgs}
    ELSE imgs \ RowsWithKey(imgs, key)

\* an updateMany without its where clause
UpdateManyByKeyAll(imgs, key, active) ==
    {[r EXCEPT !.isActive = active] : r \in imgs}

\* prisma.image.updateMany({ where: { originalKey }, data: { isActive } })
UpdateManyByKey(imgs, key, active) ==
    {IF r.originalKey = key THEN [r EXCEPT !.isActive = active] ELSE r : r \in imgs}

\* an update whose data also carries a url, rebuilt from the id
UpdateManyByIdWithUrl(imgs, id, active) ==
    {IF r.id = id
     THEN [r EXCEPT !.isActive = active, !.url = <<"cdn", "/">> \o id]
     ELSE r : r \in imgs}

\* prisma.image.updateMany / update ({ where: { id }, data: { isActive } })
UpdateManyById(imgs, id, active) ==
    {IF r.id = id THEN [r EXCEPT !.isActive = active] ELSE r : r \in imgs}

(***************************************************************************)
(* IdGenerator.createImageRecord                                           *)
(***************************************************************************)
MakeUrl(key) == CDN_BASE_URL \o <<"/">> \o key

DataOf(key, mediaType) ==
    [originalKey |-> key, url |-> MakeUrl(key), mediaType |-> mediaType]

\* a catch block that retries on any P2002, whatever its target
OnCreateErrorAnyTarget(out, att) ==
    IF out \in {"id", "originalKey"}
    THEN IF att + 1 < maxRetries
         THEN [status |-> "retry", attempts |-> att + 1, err |-> ""]
         ELSE [status |-> "thrown", attempts |-> att + 1, err |-> "exhausted"]
    ELSE [status |-> "thrown", attempts |-> att, err |-> "error"]

\* the catch block: what a failed insert leads to
OnCreateError(out, att) ==
    IF out = "id"
    THEN IF att + 1 < maxRetries
         THEN [status |-> "retry", attempts |-> att + 1, err |-> ""]
         ELSE [status |-> "thrown", attempts |-> att + 1, err |-> "exhausted"]
    ELSE IF out = "originalKey"
    THEN [status |-> "thrown", attempts |-> att, err |-> "P2002:originalKey"]
    ELSE [status |-> "thrown", attempts |-> att, err |-> "error"]

\* a call that hands the url to the store as the originalKey
createImageRecordUrlAsKey(imgs, data, att, num, out) ==
    LET id == generateId(num)
        row == [data EXCEPT !.originalKey = data.url]
    IN IF out = "ok"
       THEN [status |-> "returned", attempts |-> att, err |-> "", out |-> out,
             images |-> PrismaInsert(imgs, id, row)]
       ELSE [images |-> imgs, out |-> out] @@ OnCreateError(out, att)

\* one turn of the while loop: num is the Math.random draw and out the outcome
\* of prisma.image.create
createImageRecord(imgs, data, att, num, out) ==
    LET id == generateId(num)
        row == [data EXCEPT !.mediaType =
                    IF data.mediaType = "undefined" THEN "IMAGE"
                    ELSE data.mediaType]
    IN IF out = "ok"
       THEN [status |-> "returned", attempts |-> att, err |-> "", out |-> out,
             images |-> PrismaInsert(imgs, id, row)]
       ELSE [images |-> imgs, out |-> out] @@ OnCreateError(out, att)

\* the turns the call of invocation p can take now, its draw being in nums
TurnsWith(p, nums) ==
    {createImageRecord(images, arg[p], attempts[p], num, out) :
        <<num, out>> \in
            {no \in nums \X {"ok", "id", "originalKey", "error"} :
                no[2] \in PrismaCreateOutcomes(images, generateId(no[1]),
                                               arg[p].originalKey)}}

Turns(p) == TurnsWith(p, Nums)

\* history: what the store answered in turn t and what the call did with it
Ended(t) == [status |-> t.status, err |-> t.err, out |-> t.out]

\* this step is a turn of the call of invocation p
TurnOf(p) ==
    /\ pc[p] = "create"
    /\ <<pc[p], attempts[p], arg[p]>>' # <<pc[p], attempts[p], arg[p]>>

\* the loop goes round: only attempts changes
Retry(p, t) ==
    /\ t.status = "retry"
    /\ attempts' = [attempts EXCEPT ![p] = t.attempts]
    /\ last' = Ended(t)

\* the call is over
Leave(p) ==
    /\ attempts' = [attempts EXCEPT ![p] = 0]
    /\ arg' = [arg EXCEPT ![p] = NoData]

Call(p, data) ==
    /\ attempts' = [attempts EXCEPT ![p] = 0]
    /\ arg' = [arg EXCEPT ![p] = data]

Busy(p) == pc[p] # "idle"

\* a new invocation p is admitted: invocations overlap in pairs, p starts
\* while at most one other invocation q is in flight
CanStart(p) ==
    /\ \E q \in Procs : \A r \in Procs \ {q} : ~Busy(r)
    /\ p = "pass2" => Busy("pass1")
    /\ p = "hook2" => Busy("hook1")

(***************************************************************************)
(* The object store.  A listing request returns at most PageSize keys in   *)
(* key order, after the continuation token, of the bucket as it is then.   *)
(***************************************************************************)
PageSize == 1

uPng == <<"u", ".", "P", "N", "G">>
xPdf == <<"x", ".", "p", "d", "f">>
Filenames == {uPng, xPdf}
Uniques == {"1"}

SafeChars == {UpperChars[i] : i \in 1..Len(UpperChars)}
                \cup {LowerChars[i] : i \in 1..Len(LowerChars)}
                \cup {DigitChars[i] : i \in 1..Len(DigitChars)}
                \cup {".", "_", "-"}

\* filename.replace(/[^a-zA-Z0-9._-]/g, '_')
safeName(filename) ==
    [i \in 1..Len(filename) |->
        IF filename[i] \in SafeChars THEN filename[i] ELSE "_"]

\* env.R2_PREFIX ? env.R2_PREFIX.replace(/\/?$/, '/') : ''
UploadPrefix ==
    IF R2_PREFIX = << >> THEN << >>
    ELSE IF R2_PREFIX[Len(R2_PREFIX)] = "/" THEN R2_PREFIX
    ELSE R2_PREFIX \o <<"/">>

UploadKey(unique, filename) ==
    UploadPrefix \o <<"admin", "/", unique, "-">> \o safeName(filename)

\* every key of the model, in the order a listing returns them
KeyOrder == <<aJpg, UploadKey("1", uPng), bMp4, cTxt, dPlus, dSpace>>
\* `seed-${Date.now()}-${Math.random().toString(36).substring(7)}`
seedKey == <<"s", "e", "e", "d", "-", "1">>
AllKeys == {KeyOrder[j] : j \in 1..Len(KeyOrder)} \cup {seedKey}

Listed(b, prefix, token) ==
    {j \in 1..Len(KeyOrder) :
        j > token /\ KeyOrder[j] \in b /\ startsWith(KeyOrder[j], prefix)}

RECURSIVE FirstN(_, _)
FirstN(S, n) ==
    IF n = 0 \/ S = {} THEN << >>
    ELSE LET m == CHOOSE j \in S : \A k \in S : j <= k
         IN <<m>> \o FirstN(S \ {m}, n - 1)

\* ListObjectsV2: [Contents, NextContinuationToken]; token 0 is undefined
ListObjectsV2(b, prefix, token) ==
    LET all == Listed(b, prefix, token)
        idx == FirstN(all, PageSize)
    IN [Contents |-> [n \in 1..Len(idx) |-> KeyOrder[idx[n]]],
        NextContinuationToken |->
            IF Cardinality(all) > PageSize THEN idx[Len(idx)] ELSE 0]

(***************************************************************************)
(* runSync                                                                 *)
(***************************************************************************)
NoSync == [objects |-> << >>, token |-> 0, existingImages |-> {}, i |-> 1,
           todo |-> {}, newCount |-> 0, deactivatedCount |-> 0,
           reactivatedCount |-> 0, isolated |-> FALSE, prev |-> FALSE,
           before |-> {}, created |-> 0, activated |-> 0, deactivated |-> 0]

\* a filter that takes objects of any type
AcceptedAnyType(key) ==
    /\ key # << >>
    /\ (R2_PREFIX = << >> \/ startsWith(key, R2_PREFIX))

\* the keys a pass takes from its listing (the filter of both loops)
Accepted(key) ==
    /\ key # << >>
    /\ (R2_PREFIX = << >> \/ startsWith(key, R2_PREFIX))
    /\ getMediaType(key) # "null"

r2Keys(objects) ==
    {objects[n] : n \in {m \in 1..Len(objects) : Accepted(objects[m])}}

existingKeys(existingImages) == {img.originalKey : img \in existingImages}

\* an add loop without the reactivation branch
AddDecisionNoReactivate(key, existingImages) ==
    IF ~Accepted(key) THEN "skip"
    ELSE IF key \notin existingKeys(existingImages) THEN "create"
    ELSE "keep"

\* what a turn of the add loop does with the object key
AddDecision(key, existingImages) ==
    IF ~Accepted(key) THEN "skip"
    ELSE IF key \notin existingKeys(existingImages) THEN "create"
    ELSE IF \E img \in existingImages : img.originalKey = key /\ ~img.isActive
    THEN "reactivate"
    ELSE "keep"

\* an add loop that passes over the object of turn i
NextAddOffByOne(objects, existingImages, i) ==
    LET J == {j \in (i + 1)..Len(objects) :
                AddDecision(objects[j], existingImages) \in {"create", "reactivate"}}
    IN IF J = {} THEN Len(objects) + 1
       ELSE CHOOSE j \in J : \A k \in J : j <= k

\* the first turn of the add loop, from turn i on, that awaits a call
NextAdd(objects, existingImages, i) ==
    LET J == {j \in i..Len(objects) :
                AddDecision(objects[j], existingImages) \in {"create", "reactivate"}}
    IN IF J = {} THEN Len(objects) + 1
       ELSE CHOOSE j \in J : \A k \in J : j <= k

\* a deactivation loop that takes the rows whose key is listed
ShouldDeactivateListed(img, objects) ==
    img.originalKey \in r2Keys(objects) /\ img.isActive

\* a deactivation loop that does not look at isActive
ShouldDeactivateAny(img, objects) ==
    img.originalKey \notin r2Keys(objects)

\* the condition of the deactivation loop
ShouldDeactivate(img, objects) ==
    img.originalKey \notin r2Keys(objects) /\ img.isActive

\* the record for key, without its id: no element when there is none
RecordFor(rows, key) ==
    {[originalKey |-> r.originalKey, url |-> r.url, mediaType |-> r.mediaType,
      isActive |-> r.isActive] : r \in RowsWithKey(rows, key)}

\* the record for key after a pass that found rows and whose listing
\* contains key (listed) or not: the add loop, then the deactivation loop
RecordAfterPass(rows, key, listed) ==
    LET objects == IF listed THEN <<key>> ELSE << >>
        added == IF ~listed THEN "skip" ELSE AddDecision(key, rows)
    IN IF added = "create"
       THEN {[originalKey |-> key, url |-> MakeUrl(key),
              mediaType |-> getMediaType(key), isActive |-> TRUE]}
       ELSE IF added = "reactivate"
       THEN RecordFor(UpdateManyByKey(rows, key, TRUE), key)
       ELSE RecordFor({IF ShouldDeactivate(img, objects)
                       THEN [img EXCEPT !.isActive = FALSE]
                       ELSE img : img \in rows}, key)

\* history: something else happens while the passes are in flight
Disturbed ==
    [p \in SyncProcs |->
        [sync[p] EXCEPT !.isolated = FALSE, !.prev = FALSE, !.before = {}]]

\* the pass with locals s goes on from turn s.i of the add loop to its next
\* await: a create, a reactivation, a deactivation, or the return
SyncGoOn(p, s) ==
    LET j == NextAdd(s.objects, s.existingImages, s.i)
        todo == {img \in s.existingImages : ShouldDeactivate(img, s.objects)}
    IN IF j <= Len(s.objects)
       THEN IF AddDecision(s.objects[j], s.existingImages) = "create"
            THEN /\ pc' = [pc EXCEPT ![p] = "create"]
                 /\ Call(p, DataOf(s.objects[j], getMediaType(s.objects[j])))
                 /\ sync' = [sync EXCEPT ![p] = [s EXCEPT !.i = j]]
            ELSE /\ pc' = [pc EXCEPT ![p] = "reactivate"]
                 /\ Leave(p)
                 /\ sync' = [sync EXCEPT ![p] = [s EXCEPT !.i = j]]
       ELSE /\ pc' = [pc EXCEPT ![p] = IF todo = {} THEN "return" ELSE "deactivate"]
            /\ Leave(p)
            /\ sync' = [sync EXCEPT ![p] = [s EXCEPT !.i = j, !.todo = todo]]

\* the catch of runSync: { ok: false, ... }
SyncFail(p) ==
    /\ pc' = [pc EXCEPT ![p] = "idle"]
    /\ Leave(p)
    /\ sync' = [sync EXCEPT ![p] = NoSync]

\* an entry that does not look at ENABLE_R2_SYNC
SyncStartUnchecked(p) ==
    /\ pc[p] = "idle"
    /\ CanStart(p)
    /\ pc' = [pc EXCEPT ![p] = "list"]
    /\ sync' = [Disturbed EXCEPT ![p] =
                    IF \A q \in Procs : ~Busy(q)
                    THEN [NoSync EXCEPT !.isolated = TRUE,
                            !.prev = lastPass, !.before = images]
                    ELSE NoSync]
    /\ lastPass' = FALSE
    /\ last' = NoLast
    /\ UNCHANGED <<images, bucket, enabled, attempts, arg, hook, up, del, retired, ui, pub, authorization>>
    /\ result' = NoResult

\* entry: a disabled pass returns "skipped", another one requests the listing
SyncStart(p) ==
    /\ pc[p] = "idle"
    /\ CanStart(p)
    /\ IF ~enabled
       THEN UNCHANGED <<pc, sync>>
       ELSE /\ pc' = [pc EXCEPT ![p] = "list"]
            /\ sync' = [Disturbed EXCEPT ![p] =
                            IF \A q \in Procs : ~Busy(q)
                            THEN [NoSync EXCEPT !.isolated = TRUE,
                                    !.prev = lastPass, !.before = images]
                            ELSE NoSync]
    /\ lastPass' = FALSE
    /\ last' = NoLast
    /\ UNCHANGED <<images, bucket, enabled, attempts, arg, hook, up, del, retired, ui, pub, authorization>>
    /\ result' = IF ~enabled THEN SyncResult(FALSE, TRUE, 0, 0, 0) ELSE NoResult

\* a listing that swallows the error of a page and returns what it has
SyncListSwallow(p) ==
    /\ pc[p] = "list"
    /\ \/ LET response == ListObjectsV2(bucket, R2_PREFIX, sync[p].token)
          IN /\ sync' = [sync EXCEPT
                    ![p].objects = sync[p].objects \o response.Contents,
                    ![p].token = response.NextContinuationToken]
             /\ pc' = [pc EXCEPT ![p] =
                    IF response.NextContinuationToken # 0 THEN "list" ELSE "find"]
       \/ /\ pc' = [pc EXCEPT ![p] = "find"]
          /\ UNCHANGED sync
    /\ last' = NoLast
    /\ result' = NoResult
    /\ UNCHANGED <<images, bucket, enabled, attempts, arg, hook, up, del,
                   retired, ui, pub, authorization, lastPass>>

\* a listing that stops after its first page
SyncListFirstPage(p) ==
    /\ pc[p] = "list"
    /\ \/ LET response == ListObjectsV2(bucket, R2_PREFIX, sync[p].token)
          IN /\ sync' = [sync EXCEPT
                    ![p].objects = sync[p].objects \o response.Contents,
                    ![p].token = 0]
             /\ pc' = [pc EXCEPT ![p] = "find"]
             /\ UNCHANGED <<attempts, arg>>
       \/ SyncFail(p)
    /\ last' = NoLast
    /\ UNCHANGED <<images, bucket, enabled, hook, up, del, retired, ui, pub, authorization, lastPass>>
    /\ result' = IF pc'[p] = "idle" THEN SyncFailed(pc[p]) ELSE NoResult

\* a listing that sends no ContinuationToken
SyncListNoToken(p) ==
    /\ pc[p] = "list"
    /\ \/ LET response == ListObjectsV2(bucket, R2_PREFIX, 0)
          IN /\ sync' = [sync EXCEPT
                    ![p].objects = sync[p].objects \o response.Contents,
                    ![p].token = response.NextContinuationToken]
             /\ pc' = [pc EXCEPT ![p] =
                    IF response.NextContinuationToken # 0
                       /\ Len(sync[p].objects) < Cardinality(bucket)
                    THEN "list" ELSE "find"]
             /\ UNCHANGED <<attempts, arg>>
       \/ SyncFail(p)
    /\ last' = NoLast
    /\ UNCHANGED <<images, bucket, enabled, hook, up, del, retired, ui, pub, authorization, lastPass>>
    /\ result' = IF pc'[p] = "idle" THEN SyncFailed(pc[p]) ELSE NoResult

\* R2Service.listAllObjects: one turn of the do-while loop
SyncList(p) ==
    /\ pc[p] = "list"
    /\ \/ LET response == ListObjectsV2(bucket, R2_PREFIX, sync[p].token)
          IN /\ sync' = [sync EXCEPT
                    ![p].objects = sync[p].objects \o response.Contents,
                    ![p].token = response.NextContinuationToken]
             /\ pc' = [pc EXCEPT ![p] =
                    IF response.NextContinuationToken # 0 THEN "list" ELSE "find"]
             /\ UNCHANGED <<attempts, arg>>
       \/ SyncFail(p)
    /\ last' = NoLast
    /\ UNCHANGED <<images, bucket, enabled, hook, up, del, retired, ui, pub, authorization, lastPass>>
    /\ result' = IF pc'[p] = "idle" THEN SyncFailed(pc[p]) ELSE NoResult

\* prisma.image.findMany({ select: { originalKey, isActive } })
SyncFind(p) ==
    /\ pc[p] = "find"
    /\ \/ SyncGoOn(p, [sync[p] EXCEPT !.existingImages =
                    {[originalKey |-> r.originalKey, isActive |-> r.isActive] :
                        r \in images}])
       \/ SyncFail(p)
    /\ last' = NoLast
    /\ UNCHANGED <<images, bucket, enabled, hook, up, del, retired, ui, pub, authorization, lastPass>>
    /\ result' = IF pc'[p] = "idle" THEN SyncFailed(pc[p]) ELSE NoResult

\* the add loop: await IdGenerator.createImageRecord(...); newCount++
SyncCreate(p) ==
    /\ p \in SyncProcs
    /\ pc[p] = "create"
    /\ \E t \in Turns(p) :
        /\ images' = t.images
        /\ \/ /\ Retry(p, t)
              /\ UNCHANGED <<pc, arg, sync>>
           \/ /\ t.status = "returned"
              /\ last' = Ended(t)
              /\ SyncGoOn(p, [sync[p] EXCEPT !.newCount = sync[p].newCount + 1,
                    !.created = sync[p].created + Cardinality(t.images \ images),
                    !.i = sync[p].i + 1])
           \/ /\ t.status = "thrown"
              /\ last' = Ended(t)
              /\ SyncFail(p)
    /\ UNCHANGED <<bucket, enabled, hook, up, del, retired, ui, pub, authorization, lastPass>>
    /\ result' = IF pc'[p] = "idle" THEN SyncFailed(pc[p]) ELSE NoResult

\* the add loop: await prisma.image.updateMany(... isActive: true)
SyncReactivate(p) ==
    /\ pc[p] = "reactivate"
    /\ \/ /\ images' = UpdateManyByKey(images, sync[p].objects[sync[p].i], TRUE)
          /\ SyncGoOn(p, [sync[p] EXCEPT
                    !.reactivatedCount = sync[p].reactivatedCount + 1,
                    !.activated = sync[p].activated + Cardinality(
                        {r \in RowsWithKey(images, sync[p].objects[sync[p].i]) :
                            ~r.isActive}),
                    !.i = sync[p].i + 1])
       \/ /\ SyncFail(p)
          /\ UNCHANGED images
    /\ last' = NoLast
    /\ UNCHANGED <<bucket, enabled, hook, up, del, retired, ui, pub, authorization, lastPass>>
    /\ result' = IF pc'[p] = "idle" THEN SyncFailed(pc[p]) ELSE NoResult

\* the loop over existingImages: await prisma.image.updateMany(... false)
SyncDeactivate(p) ==
    /\ pc[p] = "deactivate"
    /\ \/ \E img \in sync[p].todo :
            /\ images' = UpdateManyByKey(images, img.originalKey, FALSE)
            /\ sync' = [sync EXCEPT
                    ![p].deactivatedCount = sync[p].deactivatedCount + 1,
                    ![p].deactivated = sync[p].deactivated + Cardinality(
                        {r \in RowsWithKey(images, img.originalKey) : r.isActive}),
                    ![p].todo = sync[p].todo \ {img}]
            /\ pc' = [pc EXCEPT ![p] =
                    IF sync[p].todo = {img} THEN "return" ELSE "deactivate"]
            /\ UNCHANGED <<attempts, arg>>
       \/ /\ SyncFail(p)
          /\ UNCHANGED images
    /\ last' = NoLast
    /\ UNCHANGED <<bucket, enabled, hook, up, del, retired, ui, pub, authorization, lastPass>>
    /\ result' = IF pc'[p] = "idle" THEN SyncFailed(pc[p]) ELSE NoResult

\* a pass that is returning { ok: true, newCount, ... } to its caller
AtReturn(p) == pc[p] = "return"

SyncReturn(p) ==
    /\ AtReturn(p)
    /\ pc' = [pc EXCEPT ![p] = "idle"]
    /\ sync' = [sync EXCEPT ![p] = NoSync]
    /\ lastPass' = sync[p].isolated
    /\ last' = NoLast
    /\ UNCHANGED <<images, bucket, enabled, attempts, arg, hook, up, del, retired, ui, pub, authorization>>
    /\ result' = SyncResult(TRUE, FALSE, sync[p].newCount, sync[p].deactivatedCount,
                          sync[p].reactivatedCount)

(***************************************************************************)
(* POST /webhook                                                           *)
(***************************************************************************)
WEBHOOK_SECRET == "good"

\* rawKey.replace(/\+/g, ' ')
PlusToSpace(s) == [i \in 1..Len(s) |-> IF s[i] = "+" THEN " " ELSE s[i]]

\* the percent escapes of the model's keys: <<hex digit, hex digit, character>>
Escapes == { <<"2", "B", "+">>, <<"2", "0", " ">>, <<"2", "5", "%">> }

IsEscapeAt(s, i) ==
    /\ i + 2 <= Len(s)
    /\ \E e \in Escapes : e[1] = s[i + 1] /\ e[2] = s[i + 2]

\* decodeURIComponent throws URIError on a "%" that starts no escape
RECURSIVE Decodable(_)
Decodable(s) ==
    IF s = << >> THEN TRUE
    ELSE IF s[1] = "%"
    THEN IsEscapeAt(s, 1) /\ Decodable(SubSeq(s, 4, Len(s)))
    ELSE Decodable(Tail(s))

RECURSIVE decodeURIComponent(_)
decodeURIComponent(s) ==
    IF s = << >> THEN << >>
    ELSE IF s[1] = "%" /\ IsEscapeAt(s, 1)
    THEN <<(CHOOSE e \in Escapes : e[1] = s[2] /\ e[2] = s[3])[3]>>
            \o decodeURIComponent(SubSeq(s, 4, Len(s)))
    ELSE <<s[1]>> \o decodeURIComponent(Tail(s))

normalizeKey(rawKey) ==
    IF Decodable(PlusToSpace(rawKey))
    THEN decodeURIComponent(PlusToSpace(rawKey))
    ELSE rawKey

\* eventName, as a sequence of words; << >> is an absent eventName
NoEvent == << >>
Created == <<"ObjectCreated", ":", "Put">>
Removed == <<"ObjectRemoved", ":", "Delete">>
Restored == <<"ObjectRestore", ":", "Post">>
EventNames == {NoEvent, Created, Removed, Restored}

includes(eventName, word) == \E i \in 1..Len(eventName) : eventName[i] = word

isRemoved(eventName) ==
    IF eventName = NoEvent THEN FALSE ELSE includes(eventName, "ObjectRemoved")
isCreate(eventName) ==
    eventName = NoEvent \/ includes(eventName, "ObjectCreated")

\* notification bodies: Shape A, Shape B (Records) and anything else
MaxRecords == 1
RawKeys == {aJpg, cTxt}
Events == [key : RawKeys, eventName : EventNames]
RecordSeqs ==
    UNION {[1..n -> Events \cup {[key |-> << >>, eventName |-> NoEvent]}] :
                n \in 0..MaxRecords}
Bodies == {[shape |-> "A", Records |-> <<e>>] : e \in Events}
            \cup {[shape |-> "B", Records |-> rs] : rs \in RecordSeqs}
            \cup {[shape |-> "other", Records |-> << >>]}

NoHook == [queue |-> << >>, id |-> << >>]

\* what processKey does first with a record of the body
HookDecision(rec) ==
    IF rec.key = << >> THEN "skip"
    ELSE IF isRemoved(rec.eventName) THEN "deactivate"
    ELSE IF ~isCreate(rec.eventName) THEN "skip"
    ELSE IF getMediaType(normalizeKey(rec.key)) = "null" THEN "skip"
    ELSE "find"

\* the locals processKey computes for a record before its first await
Job(rec) ==
    [key |-> normalizeKey(rec.key), isRemoved |-> isRemoved(rec.eventName)]

\* the records of the body that await a catalog call, as processKey sees them
RECURSIVE Jobs(_)
Jobs(records) ==
    IF records = << >> THEN << >>
    ELSE IF HookDecision(Head(records)) = "skip" THEN Jobs(Tail(records))
    ELSE <<Job(Head(records))>> \o Jobs(Tail(records))

\* what the bodies a request can carry give the async block to do
Queues == {Jobs(body.Records) : body \in Bodies}

\* the key of an object as a notification source that URL-encodes it writes
\* it: "+" for a space, a percent escape for "+" and "%"
RECURSIVE encodeKey(_)
encodeKey(key) ==
    IF key = << >> THEN << >>
    ELSE (IF key[1] = " " THEN <<"+">>
          ELSE IF key[1] = "+" THEN <<"%", "2", "B">>
          ELSE IF key[1] = "%" THEN <<"%", "2", "5">>
          ELSE <<key[1]>>) \o encodeKey(Tail(key))

\* body.key of a notification about the object: URL-encoded or as it is
Payloads(key) == {encodeKey(key), key}

\* what the notifications about the object d+.png give the async block to do
QueuesKeys ==
    {Jobs(<<[key |-> k, eventName |-> e]>>) :
        k \in Payloads(dPlus), e \in EventNames}

\* req.body as the handler reads it: key is undefined, a string or a number,
\* Records is undefined or an array
Undefined == [type |-> "undefined", value |-> << >>]
String(s) == [type |-> "string", value |-> s]
Array(a) == [type |-> "array", value |-> a]
RawRecordSeqs ==
    {<< >>,
     <<[key |-> bMp4, eventName |-> Created]>>,
     <<[key |-> bMp4, eventName |-> Restored]>>,
     <<[key |-> << >>, eventName |-> Created]>>,
     <<[key |-> << >>, eventName |-> Removed],
       [key |-> bMp4, eventName |-> Removed]>>}
RawBodies ==
    [key : {Undefined, String(<< >>), String(aJpg),
            [type |-> "number", value |-> << >>]},
     eventName : EventNames,
     Records : {Undefined} \cup {Array(a) : a \in RawRecordSeqs}]

\* a dispatch that looks at Records first
RecordsOfRecordsFirst(body) ==
    IF body.Records.type = "array" THEN body.Records.value
    ELSE IF body.key.type = "string" /\ body.key.value # << >>
    THEN <<[key |-> body.key.value, eventName |-> body.eventName]>>
    ELSE << >>

\* Case 1, Case 2 or the unknown payload: the records processKey is called
\* for, in order (a record without key is passed over by HookDecision)
RecordsOf(body) ==
    IF body.key.type = "string" /\ body.key.value # << >>
    THEN <<[key |-> body.key.value, eventName |-> body.eventName]>>
    ELSE IF body.Records.type = "array" THEN body.Records.value
    ELSE << >>

\* the requests with these bodies
RawRequests ==
    {[queue |-> Jobs(RecordsOf(body)), body |-> {body}] : body \in RawBodies}

\* the async block goes on with the jobs in queue, to its next await
HookGoOn(p, queue) ==
    /\ Leave(p)
    /\ IF queue = << >>
       THEN /\ pc' = [pc EXCEPT ![p] = "idle"]
            /\ hook' = [hook EXCEPT ![p] = NoHook]
       ELSE /\ pc' = [pc EXCEPT ![p] = "process"]
            /\ hook' = [hook EXCEPT ![p] = [NoHook EXCEPT !.queue = queue]]

\* the catch of the async block: the error is logged, the rest is dropped
HookAbort(p) ==
    /\ Leave(p)
    /\ pc' = [pc EXCEPT ![p] = "idle"]
    /\ hook' = [hook EXCEPT ![p] = NoHook]

\* a route handler that answers 400 when the body gives it nothing to do
HookRequestRejectEmpty(p) ==
    /\ pc[p] = "idle"
    /\ CanStart(p)
    /\ \E secret \in {"good", "bad"} :
        IF secret # WEBHOOK_SECRET
        THEN /\ result' = Reply(403, secret)
             /\ UNCHANGED <<hook, pc, attempts, arg, sync>>
        ELSE IF ~enabled
        THEN /\ result' = Reply(503, secret)
             /\ UNCHANGED <<hook, pc, attempts, arg, sync>>
        ELSE /\ \E queue \in Queues :
                    /\ HookGoOn(p, queue)
                    /\ result' = Reply(IF queue = << >> THEN 400 ELSE 200, secret)
             /\ sync' = Disturbed
    /\ lastPass' = FALSE
    /\ last' = NoLast
    /\ UNCHANGED <<images, bucket, enabled, up, del, retired, ui, pub, authorization>>

\* a route handler that does not compare the secret
HookRequestAnySecret(p) ==
    /\ pc[p] = "idle"
    /\ CanStart(p)
    /\ \E secret \in {"good", "bad"} :
        IF ~enabled
        THEN /\ result' = Reply(503, secret)
             /\ UNCHANGED <<hook, pc, attempts, arg, sync>>
        ELSE /\ result' = Reply(200, secret)
             /\ \E queue \in Queues : HookGoOn(p, queue)
             /\ sync' = Disturbed
    /\ lastPass' = FALSE
    /\ last' = NoLast
    /\ UNCHANGED <<images, bucket, enabled, up, del, retired, ui, pub, authorization>>

\* the route handler: 403 on a wrong secret, 503 when disabled, else 200 and
\* the async block starts on the body's records; a request is one of
\* requests, [queue, body]: what its body gives the async block to do and,
\* for the history, the body itself
HookRequestOn(p, requests) ==
    /\ pc[p] = "idle"
    /\ CanStart(p)
    /\ \E secret \in {"good", "bad"} :
        IF secret # WEBHOOK_SECRET
        THEN /\ result' = Reply(403, secret)
             /\ UNCHANGED <<hook, pc, attempts, arg, sync>>
        ELSE IF ~enabled
        THEN /\ result' = Reply(503, secret)
             /\ UNCHANGED <<hook, pc, attempts, arg, sync>>
        ELSE /\ \E req \in requests :
                    /\ result' = [Reply(200, secret) EXCEPT !.body = req.body]
                    /\ HookGoOn(p, req.queue)
             /\ sync' = Disturbed
    /\ lastPass' = FALSE
    /\ last' = NoLast
    /\ UNCHANGED <<images, bucket, enabled, up, del, retired, ui, pub, authorization>>

\* a request whose body gives the async block one of queues
HookRequestWith(p, queues) ==
    HookRequestOn(p, {[queue |-> q, body |-> {}] : q \in queues})

\* a request whose body is any of the bodies of the model
HookRequest(p) == HookRequestWith(p, Queues)

\* history: how the processKey call that has just ended came out
HookDone(what) == [NoResult EXCEPT !.kind = "processKey", !.at = what]

\* processKey: the updateMany of a removal, or the findUnique of a creation
HookProcess(p) ==
    /\ pc[p] = "process"
    /\ LET job == Head(hook[p].queue)
           key == job.key
       IN \/ /\ job.isRemoved
             /\ images' = UpdateManyByKey(images, key, FALSE)
             /\ HookGoOn(p, Tail(hook[p].queue))
             /\ result' = HookDone("removed")
          \/ /\ ~job.isRemoved
             /\ UNCHANGED images
             /\ \/ /\ \E existing \in RowsWithKey(images, key) : ~existing.isActive
                   /\ pc' = [pc EXCEPT ![p] = "activate"]
                   /\ hook' = [hook EXCEPT ![p].id =
                        (CHOOSE existing \in RowsWithKey(images, key) : TRUE).id]
                   /\ UNCHANGED <<attempts, arg>>
                   /\ result' = NoResult
                \/ /\ \E existing \in RowsWithKey(images, key) : existing.isActive
                   /\ HookGoOn(p, Tail(hook[p].queue))
                   /\ result' = HookDone("kept")
                \/ /\ RowsWithKey(images, key) = {}
                   /\ pc' = [pc EXCEPT ![p] = "create"]
                   /\ Call(p, DataOf(key, getMediaType(key)))
                   /\ UNCHANGED hook
                   /\ result' = NoResult
          \/ /\ HookAbort(p)
             /\ UNCHANGED images
             /\ result' = HookDone("thrown")
    /\ last' = NoLast
    /\ UNCHANGED <<bucket, enabled, sync, up, del, retired, ui, pub, authorization, lastPass>>

\* an update that writes the negation of the row's isActive
HookActivateToggle(p) ==
    /\ pc[p] = "activate"
    /\ \/ /\ RowsWithId(images, hook[p].id) # {}
          /\ images' = UpdateManyById(images, hook[p].id,
                \E r \in RowsWithId(images, hook[p].id) : ~r.isActive)
          /\ HookGoOn(p, Tail(hook[p].queue))
          /\ result' = HookDone("activated")
       \/ /\ HookAbort(p)
          /\ UNCHANGED images
          /\ result' = HookDone("thrown")
    /\ last' = NoLast
    /\ UNCHANGED <<bucket, enabled, sync, up, del, retired, ui, pub, authorization, lastPass>>

\* processKey: await prisma.image.update({ where: { id: existing.id }, ... })
HookActivate(p) ==
    /\ pc[p] = "activate"
    /\ \/ /\ RowsWithId(images, hook[p].id) # {}
          /\ images' = UpdateManyById(images, hook[p].id, TRUE)
          /\ HookGoOn(p, Tail(hook[p].queue))
          /\ result' = HookDone("activated")
       \/ /\ HookAbort(p)
          /\ UNCHANGED images
          /\ result' = HookDone("thrown")
    /\ last' = NoLast
    /\ UNCHANGED <<bucket, enabled, sync, up, del, retired, ui, pub, authorization, lastPass>>

\* processKey: await IdGenerator.createImageRecord(...)
HookCreate(p) ==
    /\ p \in HookProcs
    /\ pc[p] = "create"
    /\ \E t \in Turns(p) :
        /\ images' = t.images
        /\ \/ /\ Retry(p, t)
              /\ UNCHANGED <<pc, arg, hook>>
              /\ result' = NoResult
           \/ /\ t.status = "returned"
              /\ last' = Ended(t)
              /\ HookGoOn(p, Tail(hook[p].queue))
              /\ result' = HookDone("created")
           \/ /\ t.status = "thrown"
              /\ last' = Ended(t)
              /\ HookAbort(p)
              /\ result' = HookDone("thrown")
    /\ UNCHANGED <<bucket, enabled, sync, up, del, retired, ui, pub, authorization, lastPass>>

(***************************************************************************)
(* Admin routes: POST /upload, DELETE /images/:id, POST                    *)
(* /images/:id/activate and /images/:id/deactivate                         *)
(***************************************************************************)
MaxParts == 1
PartSeqs == UNION {[1..n -> Filenames] : n \in 1..MaxParts}

NoUp == [parts |-> << >>, uploaded |-> 0, skipped |-> 0]
NoDel == [id |-> << >>, originalKey |-> << >>]

\* the loop over the parts goes on with locals u to its next putObject
RECURSIVE UploadSkip(_)
UploadSkip(u) ==
    IF u.parts = << >> \/ getMediaType(Head(u.parts)) # "null" THEN u
    ELSE UploadSkip([u EXCEPT !.parts = Tail(u.parts), !.skipped = u.skipped + 1])

UploadGoOn(u) ==
    /\ Leave(UploadProc)
    /\ IF UploadSkip(u).parts = << >>
       THEN /\ pc' = [pc EXCEPT ![UploadProc] = "idle"]
            /\ up' = NoUp
       ELSE /\ pc' = [pc EXCEPT ![UploadProc] = "put"]
            /\ up' = UploadSkip(u)

\* the catch: 500 "Upload failed"
UploadFail ==
    /\ Leave(UploadProc)
    /\ pc' = [pc EXCEPT ![UploadProc] = "idle"]
    /\ up' = NoUp

\* entry: 400 when disabled
UploadRequest ==
    /\ pc[UploadProc] = "idle"
    /\ CanStart(UploadProc)
    /\ IF ~enabled
       THEN UNCHANGED <<up, pc, attempts, arg, sync>>
       ELSE /\ \E parts \in PartSeqs : UploadGoOn([NoUp EXCEPT !.parts = parts])
            /\ sync' = Disturbed
    /\ lastPass' = FALSE
    /\ last' = NoLast
    /\ UNCHANGED <<images, bucket, enabled, hook, del, retired, ui, pub, authorization>>
    /\ result' = NoResult

\* await r2.putObject(key, buffer, part.mimetype)
UploadPut ==
    /\ pc[UploadProc] = "put"
    /\ \/ \E unique \in Uniques :
            LET key == UploadKey(unique, Head(up.parts)) IN
            /\ bucket' = bucket \cup {key}
            /\ pc' = [pc EXCEPT ![UploadProc] = "create"]
            /\ Call(UploadProc, DataOf(key, getMediaType(Head(up.parts))))
            /\ UNCHANGED up
       \/ /\ UploadFail
          /\ UNCHANGED bucket
    /\ last' = NoLast
    /\ UNCHANGED <<images, enabled, sync, hook, del, retired, ui, pub, authorization, lastPass>>
    /\ result' = NoResult

\* await IdGenerator.createImageRecord(...); uploaded.push(filename)
UploadCreate ==
    /\ pc[UploadProc] = "create"
    /\ \E t \in Turns(UploadProc) :
        /\ images' = t.images
        /\ \/ /\ Retry(UploadProc, t)
              /\ UNCHANGED <<pc, arg, up>>
           \/ /\ t.status = "returned"
              /\ last' = Ended(t)
              /\ UploadGoOn([up EXCEPT !.uploaded = up.uploaded + 1,
                                       !.parts = Tail(up.parts)])
           \/ /\ t.status = "thrown"
              /\ last' = Ended(t)
              /\ UploadFail
    /\ UNCHANGED <<bucket, enabled, sync, hook, del, retired, ui, pub, authorization, lastPass>>
    /\ result' = NoResult

\* DELETE /images/:id: reply.code(code), or { ok: true } with 200
DeleteReply(id, code) ==
    [NoResult EXCEPT !.kind = "delete", !.id = id, !.code = code]

\* DELETE /images/:id up to and including findUnique({ where: { id } }):
\* 400 when disabled, 404 when there is no such row
DeleteRequest ==
    /\ pc[DeleteProc] = "idle"
    /\ CanStart(DeleteProc)
    /\ \E id \in Ids :
        IF ~enabled
        THEN /\ result' = DeleteReply(id, 400)
             /\ UNCHANGED <<del, pc, sync>>
        ELSE IF RowsWithId(images, id) = {}
        THEN /\ result' = DeleteReply(id, 404)
             /\ UNCHANGED <<del, pc, sync>>
        ELSE /\ Cardinality(retired) < MaxRetired
             /\ del' = [id |-> id, originalKey |->
                        (CHOOSE r \in RowsWithId(images, id) : TRUE).originalKey]
             /\ pc' = [pc EXCEPT ![DeleteProc] = "deleteObject"]
             /\ sync' = Disturbed
             /\ result' = NoResult
    /\ lastPass' = FALSE
    /\ last' = NoLast
    /\ UNCHANGED <<images, bucket, enabled, attempts, arg, hook, up, retired, ui, pub, authorization>>

\* a handler that deletes the row before the object
DeleteObjectRowFirst ==
    /\ pc[DeleteProc] = "deleteObject"
    /\ \/ /\ pc' = [pc EXCEPT ![DeleteProc] = "deleteRow"]
          /\ images' = images \ RowsWithId(images, del.id)
          /\ UNCHANGED <<del, bucket>>
          /\ result' = NoResult
       \/ /\ pc' = [pc EXCEPT ![DeleteProc] = "idle"]
          /\ del' = NoDel
          /\ UNCHANGED <<bucket, images>>
          /\ result' = DeleteReply(del.id, 500)
    /\ last' = NoLast
    /\ UNCHANGED <<enabled, attempts, arg, sync, hook, up, retired, ui, pub, authorization, lastPass>>

\* await r2.deleteObject(record.originalKey); 500 when it throws
DeleteObject ==
    /\ pc[DeleteProc] = "deleteObject"
    /\ \/ /\ bucket' = bucket \ {del.originalKey}
          /\ pc' = [pc EXCEPT ![DeleteProc] = "deleteRow"]
          /\ UNCHANGED del
          /\ result' = NoResult
       \/ /\ pc' = [pc EXCEPT ![DeleteProc] = "idle"]
          /\ del' = NoDel
          /\ UNCHANGED bucket
          /\ result' = DeleteReply(del.id, 500)
    /\ last' = NoLast
    /\ UNCHANGED <<images, enabled, attempts, arg, sync, hook, up, retired, ui, pub, authorization, lastPass>>

\* await prisma.image.delete({ where: { id } }) and { ok: true }; 500 when
\* it throws
DeleteRow ==
    /\ pc[DeleteProc] = "deleteRow"
    /\ pc' = [pc EXCEPT ![DeleteProc] = "idle"]
    /\ del' = NoDel
    /\ \/ /\ RowsWithId(images, del.id) # {}
          /\ images' = images \ RowsWithId(images, del.id)
          /\ retired' = retired \cup
                {<<r.id, r.originalKey>> : r \in RowsWithId(images, del.id)}
          /\ result' = DeleteReply(del.id, 200)
       \/ /\ UNCHANGED <<images, retired>>
          /\ result' = DeleteReply(del.id, 500)
    /\ last' = NoLast
    /\ UNCHANGED <<ui, bucket, enabled, attempts, arg, sync, hook, up, pub, authorization, lastPass>>

\* POST /images/:id/activate (active = TRUE) and /deactivate (active = FALSE);
\* 404 when no row has the id
AdminSetActive(active) ==
    /\ \E id \in Ids : images' = UpdateManyById(images, id, active)
    /\ lastPass' = FALSE
    /\ last' = NoLast
    /\ sync' = Disturbed
    /\ UNCHANGED <<bucket, enabled, pc, attempts, arg, hook, up, del, retired, ui, pub, authorization>>
    /\ result' = NoResult

AdminActivate == AdminSetActive(TRUE)
AdminDeactivate == AdminSetActive(FALSE)

(***************************************************************************)
(* The admin API: POST /login and the onRequest hook of the admin routes.  *)
(***************************************************************************)
\* env.ADMIN_PASSWORD, and the passwords a login request may carry
ADMIN_PASSWORD == <<"p", "w">>
Passwords == {ADMIN_PASSWORD, <<"p">>, << >>}

isBcryptHash(s) ==
    \/ startsWith(s, <<"$", "2", "a", "$">>)
    \/ startsWith(s, <<"$", "2", "b", "$">>)
    \/ startsWith(s, <<"$", "2", "y", "$">>)

\* bcrypt.compare: the hash of a password is the password behind a prefix
bcryptCompare(password, hash) == hash = <<"$", "2", "b", "$">> \o password

isValid(password) ==
    IF isBcryptHash(ADMIN_PASSWORD)
    THEN bcryptCompare(password, ADMIN_PASSWORD)
    ELSE password = ADMIN_PASSWORD

\* app.jwt.sign(payload), with secret env.JWT_SECRET and expiresIn '1h'
sign(payload) == [signed |-> TRUE, role |-> payload.role, expired |-> FALSE]

\* req.jwtVerify() resolves: the token is there, signed with the secret and
\* not expired
jwtVerify(token) == token.signed /\ ~token.expired

\* the routes of the plugin, without their prefix /api/admin
LoginRoute == "/login"
AdminRoutes == {"/settings", "/images", "/refresh", "/music", "/upload",
                "/images/:id/deactivate", "/images/:id/activate",
                "/images/:id"}

\* a hook that does not look at the role of the payload
onRequestAnyRole(route, token) ==
    IF route = LoginRoute THEN 0
    ELSE IF ~jwtVerify(token) THEN 401
    ELSE 0

\* the onRequest hook: 0 when the request goes on to its handler, else the
\* code of the reply the hook sends (401 is the error of jwtVerify)
onRequest(route, token) ==
    IF route = LoginRoute THEN 0
    ELSE IF ~jwtVerify(token) THEN 401
    ELSE IF token.role # "admin" THEN 403
    ELSE 0

\* the request with the client's Authorization header reaches the handler
Admitted(route) == onRequest(route, authorization) = 0

\* the reply of an admin route; secret is the password of a login request
AdminReply(route, code, password, body) ==
    [NoResult EXCEPT !.kind = route, !.code = code, !.secret = password,
                     !.body = body]

\* POST /login: the client keeps the token of a 200 reply
Login ==
    /\ onRequest(LoginRoute, authorization) = 0
    /\ \E password \in Passwords :
        IF ~isValid(password)
        THEN /\ result' = AdminReply(LoginRoute, 401, password, {})
             /\ UNCHANGED authorization
        ELSE /\ result' = AdminReply(LoginRoute, 200, password,
                                     {sign([role |-> "admin"])})
             /\ authorization' = sign([role |-> "admin"])
    /\ UNCHANGED <<images, bucket, enabled, pc, attempts, arg, sync, hook, up,
                   del, retired, ui, pub, lastPass, last>>

\* the tokens a client has without a login: none, one with another
\* signature, one signed with the secret for another role
OtherTokens ==
    {NoToken, [signed |-> FALSE, role |-> "admin", expired |-> FALSE],
     [signed |-> TRUE, role |-> "user", expired |-> FALSE]}

\* the client takes another Authorization header
ClientToken ==
    /\ \E token \in OtherTokens \ {authorization} : authorization' = token
    /\ result' = NoResult
    /\ UNCHANGED <<images, bucket, enabled, pc, attempts, arg, sync, hook, up,
                   del, retired, ui, pub, lastPass, last>>

\* an hour passes: the token the client holds expires
TokenExpires ==
    /\ authorization.signed /\ ~authorization.expired
    /\ authorization' = [authorization EXCEPT !.expired = TRUE]
    /\ result' = NoResult
    /\ UNCHANGED <<images, bucket, enabled, pc, attempts, arg, sync, hook, up,
                   del, retired, ui, pub, lastPass, last>>

\* a request to an admin route that the hook answers
AdminRejected ==
    /\ \E route \in AdminRoutes :
        /\ ~Admitted(route)
        /\ result' = AdminReply(route, onRequest(route, authorization),
                                << >>, {})
    /\ UNCHANGED <<images, bucket, enabled, pc, attempts, arg, sync, hook, up,
                   del, retired, ui, pub, authorization, lastPass, last>>

\* GET /images of the admin API: findMany with no where clause
AdminImages ==
    /\ \/ result' = AdminReply("/images", 200, << >>, images)
       \/ result' = AdminReply("/images", 500, << >>, {})
    /\ UNCHANGED <<images, bucket, enabled, pc, attempts, arg, sync, hook, up,
                   del, retired, ui, pub, authorization, lastPass, last>>

(***************************************************************************)
(* The public routes.  GET /images and GET /images/:id await one query,    *)
(* GET /images/random awaits a count and then a read.                      *)
(***************************************************************************)
\* select: { id, url, mediaType, createdAt }
Select(r) == [id |-> r.id, url |-> r.url, mediaType |-> r.mediaType]

Active(imgs) == {r \in imgs : r.isActive}

\* the reply of a public route to a request for id (<< >> when it has none)
PublicReply(route, id, code, body) ==
    [NoResult EXCEPT !.kind = route, !.id = id, !.code = code, !.body = body]

\* GET /images: prisma.image.findMany({ where: { isActive: true } })
GetImages ==
    /\ \/ result' = PublicReply("GET /images", << >>, 200,
                        {Select(r) : r \in Active(images)})
       \/ result' = PublicReply("GET /images", << >>, 500, {})
    /\ UNCHANGED <<images, bucket, enabled, pc, attempts, arg, sync, hook, up,
                   del, retired, ui, pub, authorization, lastPass, last>>

\* params: { id: z.string().length(5) }; a request may carry a shorter id
ShortId == <<"7">>
RequestIds == Ids \cup {ShortId}

\* GET /images/:id: 400 from the schema, else findUnique({ where: { id } })
GetImageWith(ids) ==
    /\ \E id \in ids :
        IF Len(id) # IdDigits
        THEN result' = PublicReply("GET /images/:id", id, 400, {})
        ELSE \/ /\ RowsWithId(images, id) = {}
                /\ result' = PublicReply("GET /images/:id", id, 404, {})
             \/ \E image \in RowsWithId(images, id) :
                    result' = IF ~image.isActive
                              THEN PublicReply("GET /images/:id", id, 410, {})
                              ELSE PublicReply("GET /images/:id", id, 200,
                                               {Select(image)})
             \/ result' = PublicReply("GET /images/:id", id, 500, {})
    /\ UNCHANGED <<images, bucket, enabled, pc, attempts, arg, sync, hook, up,
                   del, retired, ui, pub, authorization, lastPass, last>>

\* a request for any of the ids of the model
GetImage == GetImageWith(RequestIds)

\* GET /images/random: prisma.image.count({ where: { isActive: true } }),
\* then skip = Math.floor(Math.random() * count)
RandomCount ==
    /\ pc[RandomProc] = "idle"
    /\ LET count == Cardinality(Active(images))
       IN \/ /\ count = 0
             /\ result' = PublicReply("GET /images/random", << >>, 404, {})
             /\ UNCHANGED <<pc, pub>>
          \/ /\ count > 0
             /\ \E skip \in 0..(count - 1) :
                    pub' = [count |-> count, skip |-> skip]
             /\ pc' = [pc EXCEPT ![RandomProc] = "read"]
             /\ result' = NoResult
          \/ /\ result' = PublicReply("GET /images/random", << >>, 500, {})
             /\ UNCHANGED <<pc, pub>>
    /\ UNCHANGED <<images, bucket, enabled, attempts, arg, sync, hook, up,
                   del, retired, ui, authorization,
                   lastPass, last>>

\* findMany({ where: { isActive: true }, take: 1, skip }): the rows come in
\* an order of the store's choice, so the row after skip rows is any of the
\* active rows when there are more than skip of them, and none otherwise
RandomRead ==
    /\ pc[RandomProc] = "read"
    /\ \/ /\ pub.skip < Cardinality(Active(images))
          /\ \E image \in Active(images) :
                result' = PublicReply("GET /images/random", << >>, 200,
                                      {Select(image)})
       \/ /\ pub.skip >= Cardinality(Active(images))
          /\ result' = PublicReply("GET /images/random", << >>, 404, {})
       \/ result' = PublicReply("GET /images/random", << >>, 500, {})
    /\ pc' = [pc EXCEPT ![RandomProc] = "idle"]
    /\ pub' = NoPub
    /\ UNCHANGED <<images, bucket, enabled, attempts, arg, sync, hook, up,
                   del, retired, ui, authorization,
                   lastPass, last>>

(***************************************************************************)
(* scripts/seed.ts: a row for each placeholder image that has none yet.    *)
(***************************************************************************)
PLACEHOLDERS == { <<"unsplash", "/", "1">> }

\* main() starts: await prisma.image.findFirst({ where: { url } })
SeedStart ==
    /\ pc[SeedProc] = "idle"
    /\ CanStart(SeedProc)
    /\ pc' = [pc EXCEPT ![SeedProc] = "find"]
    /\ sync' = Disturbed
    /\ lastPass' = FALSE
    /\ last' = NoLast
    /\ result' = NoResult
    /\ UNCHANGED <<images, bucket, enabled, attempts, arg, hook, up, del, retired, ui, pub, authorization>>

\* if (exists) continue; else createImageRecord({ originalKey: key, url, ... })
\* with no mediaType; a rejection ends the script
SeedFind ==
    /\ pc[SeedProc] = "find"
    /\ \E url \in PLACEHOLDERS :
        \/ /\ \E r \in images : r.url = url
           /\ pc' = [pc EXCEPT ![SeedProc] = "idle"]
           /\ UNCHANGED <<attempts, arg>>
        \/ /\ \A r \in images : r.url # url
           /\ pc' = [pc EXCEPT ![SeedProc] = "create"]
           /\ Call(SeedProc, [originalKey |-> seedKey, url |-> url,
                              mediaType |-> "undefined"])
        \/ /\ pc' = [pc EXCEPT ![SeedProc] = "idle"]
           /\ UNCHANGED <<attempts, arg>>
    /\ last' = NoLast
    /\ result' = NoResult
    /\ UNCHANGED <<images, bucket, enabled, sync, hook, up, del, retired, ui, pub, authorization, lastPass>>

\* await IdGenerator.createImageRecord(...), its draw being in nums
SeedCreateWith(nums) ==
    /\ pc[SeedProc] = "create"
    /\ \E t \in TurnsWith(SeedProc, nums) :
        /\ images' = t.images
        /\ \/ /\ Retry(SeedProc, t)
              /\ UNCHANGED <<pc, arg>>
           \/ /\ t.status \in {"returned", "thrown"}
              /\ last' = Ended(t)
              /\ Leave(SeedProc)
              /\ pc' = [pc EXCEPT ![SeedProc] = "idle"]
    /\ result' = NoResult
    /\ UNCHANGED <<bucket, enabled, sync, hook, up, del, retired, ui, pub, authorization, lastPass>>

(***************************************************************************)
(* The environment: objects are dropped into and removed from the bucket.  *)
(***************************************************************************)
ObjectPut ==
    /\ \E key \in BucketKeys \ bucket : bucket' = bucket \cup {key}
    /\ sync' = Disturbed
    /\ lastPass' = FALSE
    /\ last' = NoLast
    /\ UNCHANGED <<images, enabled, pc, attempts, arg, hook, up, del, retired, ui, pub, authorization>>
    /\ result' = NoResult

ObjectRemove ==
    /\ \E key \in bucket : bucket' = bucket \ {key}
    /\ sync' = Disturbed
    /\ lastPass' = FALSE
    /\ last' = NoLast
    /\ UNCHANGED <<images, enabled, pc, attempts, arg, hook, up, del, retired, ui, pub, authorization>>
    /\ result' = NoResult

\* the server is started again with another ENABLE_R2_SYNC, over the same
\* catalog and bucket, when no handler is in flight
Reconfigure ==
    /\ \A p \in Procs : ~Busy(p)
    /\ enabled' = ~enabled
    /\ sync' = Disturbed
    /\ lastPass' = FALSE
    /\ last' = NoLast
    /\ result' = NoResult
    /\ UNCHANGED <<images, bucket, pc, attempts, arg, hook, up, del, retired, ui, pub, authorization>>

(***************************************************************************)
(* The page in the browser (App.tsx, LogoOverlay.tsx, Gallery.tsx).  A     *)
(* page is loaded once, on the route of its address; an action is a        *)
(* callback (a fetch that answers, a tween or timeline that completes, a   *)
(* load or pointer event) together with the renders and effects that       *)
(* follow from the state it sets.                                          *)
(***************************************************************************)
Server == <<images, bucket, enabled, pc, attempts, arg, sync, hook, up, del,
            retired, pub, authorization, lastPass, last, result>>

\* gallery cycles of one page load
MaxCycles == 3

NoImage == [id |-> << >>, url |-> << >>, mediaType |-> "null"]

\* ID_REGEX = /^\d{5}$/
IdRegexTest(id) ==
    /\ Len(id) = 5
    /\ \A i \in 1..Len(id) : \E d \in 1..Len(DigitChars) : id[i] = DigitChars[d]

\* <Route path="/admin">, else "/" and "/:id"; id is useParams().id
RouteOf(id) == IF id = <<"a", "d", "m", "i", "n">> THEN "admin" ELSE "gallery"

\* the addresses a page is loaded on: "/", the ids of the rows, an id with
\* no row, an id that is no 5-digit id, "/admin"
Addresses ==
    {<< >>, generateId(0), generateId(1), generateId(2), ShortId,
     <<"a", "d", "m", "i", "n">>}

\* const singleMode = Boolean(id && ID_REGEX.test(id))
SingleModeOf(id) == id # << >> /\ IdRegexTest(id)

\* the state of a page that has just been loaded on the address id
Page(id) ==
    [route |-> RouteOf(id), id |-> id, address |-> id,
     list |-> {}, listState |-> "pending",
     logoLoaded |-> FALSE, hasRun |-> FALSE, stage |-> 0,
     introFinished |-> FALSE, introComplete |-> FALSE, introCalls |-> 0,
     firstCycleComplete |-> FALSE, hoverEnabled |-> FALSE,
     tagline |-> "hidden",
     lookup |-> "none", ready |-> FALSE, start |-> NoImage, next |-> NoImage,
     notFound |-> FALSE,
     mounted |-> FALSE, pool |-> {}, singleMode |-> FALSE,
     activeLayer |-> "A", currentImg |-> NoImage, nextImg |-> NoImage,
     cycleCount |-> 0, zoomIn |-> TRUE,
     layerAReady |-> FALSE, layerBReady |-> FALSE, tl |-> "none",
     lastImageId |-> << >>, replaced |-> 0]

\* pickRandom(list, excludeId) and getRandomImage(images, excludeId): the
\* records the draw can give (list[0], the only record, when the pool is
\* empty)
pickRandom(list, excludeId) ==
    LET pool == {i \in list : i.id # excludeId}
    IN IF pool = {} THEN list ELSE pool

\* fetchImageById(id): the record of a 200 reply, else null
fetchImageById(id) ==
    {Select(r) : r \in {x \in RowsWithId(images, id) : x.isActive}}

\* LogoOverlay: pointerEvents: hoverEnabled ? 'auto' : 'none'
pointerEvents(u) == IF u.hoverEnabled THEN "auto" ELSE "none"

\* Gallery: urlA and urlB
urlA(u) == IF u.activeLayer = "A" THEN u.currentImg.url ELSE u.nextImg.url
urlB(u) == IF u.activeLayer = "B" THEN u.currentImg.url ELSE u.nextImg.url

\* Gallery: the layers that are rendered (Layer B only when not singleMode)
HasLayer(u, layer) ==
    IF layer = "A" THEN urlA(u) # << >>
    ELSE ~u.singleMode /\ urlB(u) # << >>

LayerReady(u, layer) == IF layer = "A" THEN u.layerAReady ELSE u.layerBReady
Other(layer) == IF layer = "A" THEN "B" ELSE "A"

\* Gallery, effect 2 (Main Animation Loop): a new timeline starts unless
\* one of the early returns is taken
Animate(u) ==
    IF /\ u.currentImg # NoImage
       /\ (u.nextImg # NoImage \/ u.singleMode)
       /\ (u.cycleCount > 0 => LayerReady(u, u.activeLayer))
       /\ HasLayer(u, u.activeLayer)
       /\ (HasLayer(u, Other(u.activeLayer)) \/ u.singleMode)
    THEN [u EXCEPT !.tl = "running"]
    ELSE [u EXCEPT !.tl = "none"]

\* <Gallery ...> is mounted: useState initial values, then its effects
Mount(u, pool, start, next, single) ==
    Animate([u EXCEPT !.mounted = TRUE, !.pool = pool, !.singleMode = single,
                      !.activeLayer = "A", !.currentImg = start,
                      !.nextImg = next, !.cycleCount = 0, !.zoomIn = TRUE,
                      !.layerAReady = FALSE, !.layerBReady = FALSE,
                      !.lastImageId = start.id])

\* a GalleryRouteHandler that does not wait for introComplete
RenderRouteUngated(u) ==
    IF u.ready /\ ~u.mounted
    THEN Mount(u, IF SingleModeOf(u.id) THEN {u.start} ELSE u.list,
               u.start, u.next, SingleModeOf(u.id))
    ELSE u

\* GalleryRouteHandler: null until readyData and introComplete, then Gallery
RenderRoute(u) ==
    IF u.ready /\ u.introComplete /\ ~u.mounted
    THEN Mount(u, IF SingleModeOf(u.id) THEN {u.start} ELSE u.list,
               u.start, u.next, SingleModeOf(u.id))
    ELSE u

\* what GalleryRouteHandler and the admin route show
Shown(u) ==
    IF u.mounted THEN "gallery"
    ELSE IF u.route = "gallery" /\ ~u.ready /\ u.notFound /\ u.introComplete
    THEN "not found"
    ELSE "nothing"

\* an App whose effect looks at introComplete alone
AppEffectIntroOnly(u) ==
    IF u.introComplete THEN [u EXCEPT !.hoverEnabled = TRUE] ELSE u

\* App: useEffect(() => { if (introComplete && firstCycleComplete)
\* setHoverEnabled(true) })
AppEffect(u) ==
    IF u.introComplete /\ u.firstCycleComplete
    THEN [u EXCEPT !.hoverEnabled = TRUE]
    ELSE u

\* the effects and the render that follow a state change on a gallery route
Settle(u) == IF u.route = "gallery" THEN RenderRoute(AppEffect(u)) ELSE u

UiStep(u) == ui' = u /\ UNCHANGED Server

\* App: fetchImageList() answers, with the active rows or (on an error) [];
\* then the effect of GalleryRouteHandler over [id, images] (prepareAssets up
\* to its first await), or the Gallery of the admin route
ListArrives ==
    /\ ui.route # "" /\ ui.listState = "pending"
    /\ \E list \in {{Select(r) : r \in Active(images)}, {}} :
        LET u == [ui EXCEPT !.list = list, !.listState = "done"]
        IN IF list = {} THEN UiStep(u)
           ELSE IF u.route = "admin"
           THEN \E start \in list : \E next \in pickRandom(list, start.id) :
                    UiStep(Mount(u, list, start, next, FALSE))
           ELSE IF SingleModeOf(u.id)
           THEN UiStep([u EXCEPT !.lookup = "pending"])
           ELSE \E start \in pickRandom(list, << >>) :
                \E next \in pickRandom(list, start.id) :
                    UiStep(Settle([u EXCEPT !.ready = TRUE, !.start = start,
                                            !.next = next]))

\* prepareAssets: fetchImageById(id) answers
LookupReturns ==
    /\ ui.route = "gallery" /\ ui.lookup = "pending"
    /\ \E answer \in {fetchImageById(ui.id), {}} :
        IF answer = {}
        THEN UiStep(Settle([ui EXCEPT !.lookup = "done", !.notFound = TRUE]))
        ELSE \E startRecord \in answer :
                UiStep(Settle([ui EXCEPT !.lookup = "done", !.ready = TRUE,
                                         !.start = startRecord,
                                         !.next = startRecord]))

\* LogoOverlay: the logo has loaded (or failed to); the intro timeline is
\* started, once
LogoLoads ==
    /\ ui.route = "gallery" /\ ~ui.logoLoaded
    /\ UiStep([ui EXCEPT !.logoLoaded = TRUE, !.hasRun = TRUE,
                         !.stage = IF ui.hasRun THEN ui.stage ELSE 1])

\* the intro timeline: the tween of step 1, 2, 3, 4 or 5 completes; after
\* step 5 (step 6 is the tagline staying) the background fade is started
IntroStep ==
    /\ ui.route = "gallery" /\ ui.stage \in 1..5
    /\ UiStep([ui EXCEPT !.stage = ui.stage + 1,
                         !.tagline = IF ui.stage = 4 THEN "faint"
                                     ELSE ui.tagline])

\* the background fade completes: setIntroFinished(true), onIntroComplete()
IntroFadeCompletes ==
    /\ ui.route = "gallery" /\ ui.stage = 6
    /\ UiStep(Settle([ui EXCEPT !.stage = 7, !.introFinished = TRUE,
                                !.introComplete = TRUE,
                                !.introCalls = ui.introCalls + 1]))

\* the pointer enters the logo; the overlay takes pointer events only with
\* pointerEvents 'auto'
MouseEnter ==
    /\ ui.route = "gallery" /\ pointerEvents(ui) = "auto"
    /\ UiStep(IF ~ui.hoverEnabled THEN ui ELSE [ui EXCEPT !.tagline = "full"])

MouseLeave ==
    /\ ui.route = "gallery" /\ pointerEvents(ui) = "auto"
    /\ ui.tagline = "full"
    /\ UiStep([ui EXCEPT !.tagline = "faint"])

\* Gallery: onLoad / onLoadedMetadata of a layer, then effect 2
LayerLoads ==
    /\ ui.route # "" /\ ui.mounted
    /\ \E layer \in {"A", "B"} :
        /\ HasLayer(ui, layer) /\ ~LayerReady(ui, layer)
        /\ UiStep(Animate(IF layer = "A"
                          THEN [ui EXCEPT !.layerAReady = TRUE]
                          ELSE [ui EXCEPT !.layerBReady = TRUE]))

\* Gallery: what follows the state set by onComplete: the layers whose url
\* has changed are not ready, the address is replaced with the id of a new
\* current image (onImageChange), and effect 2 runs
AfterCycle(old, u) ==
    LET v == [u EXCEPT
                !.layerAReady = u.layerAReady /\ urlA(u) = urlA(old),
                !.layerBReady = u.layerBReady /\ urlB(u) = urlB(old)]
        changed == v.currentImg.id # v.lastImageId
        w == IF ~changed THEN v
             ELSE IF v.route = "admin" \/ SingleModeOf(v.id)
                     \/ v.id = v.currentImg.id
             THEN [v EXCEPT !.lastImageId = v.currentImg.id]
             ELSE [v EXCEPT !.lastImageId = v.currentImg.id,
                            !.address = v.currentImg.id,
                            !.replaced = v.replaced + 1]
    IN Animate(w)

\* Gallery: the timeline completes (onComplete); a completion counts as a
\* cycle unless the next layer is not ready. The first cycle of a gallery
\* route sets firstCycleComplete in App, whose render runs effect 2 again
TimelineCompletes ==
    /\ ui.route # "" /\ ui.mounted /\ ui.tl = "running"
    /\ ui.cycleCount < MaxCycles
    /\ IF ~ui.singleMode /\ ~LayerReady(ui, Other(ui.activeLayer))
       THEN UiStep([ui EXCEPT !.tl = "ended"])
       ELSE LET counted ==
                    [ui EXCEPT !.tl = "ended",
                               !.cycleCount = ui.cycleCount + 1,
                               !.firstCycleComplete =
                                    \/ ui.firstCycleComplete
                                    \/ ui.cycleCount = 0 /\ ui.route = "gallery",
                               !.zoomIn = ~ui.zoomIn]
            IN IF ~ui.singleMode /\ ui.nextImg # NoImage
               THEN \E nextLoopRecord \in pickRandom(ui.pool, ui.nextImg.id) :
                        UiStep(AppEffect(AfterCycle(ui,
                            [counted EXCEPT
                                !.activeLayer = Other(ui.activeLayer),
                                !.currentImg = ui.nextImg,
                                !.nextImg = nextLoopRecord])))
               ELSE UiStep(AppEffect(IF counted.firstCycleComplete
                                        /\ ~ui.firstCycleComplete
                                     THEN Animate(counted)
                                     ELSE counted))

\* App renders again for another reason (the settings arrive, the contact
\* form is opened): Gallery is given a new onFirstCycleComplete, so effect 2
\* runs again
AppRenders ==
    /\ ui.route # "" /\ ui.mounted /\ ui.tl # "running"
    /\ UiStep(Animate(ui))


(***************************************************************************)
(* Specifications.                                                         *)
(***************************************************************************)
Init ==
    /\ images = {}
    /\ bucket \in SUBSET BucketKeys
    /\ enabled \in BOOLEAN
    /\ pc = [p \in Procs |-> "idle"]
    /\ attempts = [p \in Procs |-> 0]
    /\ arg = [p \in Procs |-> NoData]
    /\ sync = [p \in SyncProcs |-> NoSync]
    /\ hook = [p \in HookProcs |-> NoHook]
    /\ up = NoUp
    /\ del = NoDel
    /\ retired = {}
    /\ pub = NoPub
    /\ authorization = NoToken
    /\ lastPass = FALSE
    /\ last = NoLast
    /\ result = NoResult
    /\ ui = NoUi

SyncStep(p) ==
    \/ SyncStart(p) \/ SyncList(p) \/ SyncFind(p) \/ SyncCreate(p)
    \/ SyncReactivate(p) \/ SyncDeactivate(p) \/ SyncReturn(p)

HookStep(p) ==
    \/ HookRequest(p) \/ HookProcess(p) \/ HookActivate(p) \/ HookCreate(p)

UploadStep == UploadRequest \/ UploadPut \/ UploadCreate

DeleteStep == DeleteRequest \/ DeleteObject \/ DeleteRow

SeedCreate == SeedCreateWith(Nums)

SeedStep == SeedStart \/ SeedFind \/ SeedCreate

Environment == ObjectPut \/ ObjectRemove

\* the reconciliation job and the event handler under any interleaving of
\* their awaits, two invocations at a time, while the admin toggles rows and
\* the bucket changes
Next ==
    \/ \E p \in SyncProcs : SyncStep(p)
    \/ \E p \in HookProcs : HookStep(p)
    \/ AdminActivate
    \/ AdminDeactivate
    \/ Environment
    \/ Reconfigure

Spec == Init /\ [][Next]_vars

\* an upload and a webhook delivery under any interleaving of their awaits,
\* while the bucket changes
NextUpload ==
    \/ HookStep("hook1")
    \/ UploadStep
    \/ Environment
    \/ Reconfigure

SpecUpload == Init /\ [][NextUpload]_vars

\* the handlers run one at a time: no invocation starts or moves, and the
\* bucket does not change, while another one is in flight
Alone(p) == \A q \in Procs \ {p} : ~Busy(q)
AllIdle == \A q \in Procs : ~Busy(q)

NextSeq ==
    \/ \E p \in SyncProcs : Alone(p) /\ SyncStep(p)
    \/ \E p \in HookProcs : Alone(p) /\ HookStep(p)
    \/ Alone(UploadProc) /\ UploadStep
    \/ Alone(DeleteProc) /\ DeleteStep
    \/ AllIdle /\ AdminActivate
    \/ AllIdle /\ AdminDeactivate
    \/ AllIdle /\ Environment
    \/ Reconfigure

SpecSeq == Init /\ [][NextSeq]_vars

\* the scenario of a bucket that holds an image, a video and a text file:
\* passes and webhook deliveries run one at a time over it, objects are
\* removed and put back
InitTypes ==
    /\ images = {}
    /\ bucket = {aJpg, bMp4, cTxt}
    /\ enabled = TRUE
    /\ pc = [p \in Procs |-> "idle"]
    /\ attempts = [p \in Procs |-> 0]
    /\ arg = [p \in Procs |-> NoData]
    /\ sync = [p \in SyncProcs |-> NoSync]
    /\ hook = [p \in HookProcs |-> NoHook]
    /\ up = NoUp
    /\ del = NoDel
    /\ retired = {}
    /\ pub = NoPub
    /\ authorization = NoToken
    /\ lastPass = FALSE
    /\ last = NoLast
    /\ result = NoResult
    /\ ui = NoUi

NextTypes ==
    \/ Alone("pass1") /\ SyncStep("pass1")
    \/ Alone("hook1") /\ HookStep("hook1")
    \/ AllIdle /\ Environment

SpecTypes == InitTypes /\ [][NextTypes]_vars

\* the scenario of a seeded catalog: the seed script, passes and webhook
\* deliveries about the key of the seeded row run one at a time, and the
\* admin toggles rows
QueuesSeed ==
    {Jobs(<<[key |-> seedKey, eventName |-> e]>>) : e \in {Created, Removed}}

NextSeed ==
    \/ Alone(SeedProc) /\ SeedStep
    \/ Alone("pass1") /\ SyncStep("pass1")
    \/ Alone("hook1") /\ HookRequestWith("hook1", QueuesSeed)
    \/ Alone("hook1") /\ HookProcess("hook1")
    \/ AllIdle /\ AdminActivate
    \/ AllIdle /\ AdminDeactivate
    \/ AllIdle /\ Environment

SpecSeed == Init /\ [][NextSeed]_vars

\* the scenario of a soft delete: the objects stay in the bucket and no
\* removed event arrives, so only the admin deactivates; passes and
\* deliveries of created events run one at a time
InitSoft ==
    /\ images = {}
    /\ bucket = {aJpg, bMp4}
    /\ enabled = TRUE
    /\ pc = [p \in Procs |-> "idle"]
    /\ attempts = [p \in Procs |-> 0]
    /\ arg = [p \in Procs |-> NoData]
    /\ sync = [p \in SyncProcs |-> NoSync]
    /\ hook = [p \in HookProcs |-> NoHook]
    /\ up = NoUp
    /\ del = NoDel
    /\ retired = {}
    /\ pub = NoPub
    /\ authorization = NoToken
    /\ lastPass = FALSE
    /\ last = NoLast
    /\ result = NoResult
    /\ ui = NoUi

QueuesSoft ==
    {Jobs(<<[key |-> k, eventName |-> Created]>>) : k \in {aJpg, bMp4}}

NextSoft ==
    \/ Alone("pass1") /\ SyncStep("pass1")
    \/ Alone("hook1") /\ HookRequestWith("hook1", QueuesSoft)
    \/ Alone("hook1") /\ HookProcess("hook1")
    \/ Alone("hook1") /\ HookActivate("hook1")
    \/ Alone("hook1") /\ HookCreate("hook1")
    \/ AllIdle /\ AdminActivate
    \/ AllIdle /\ AdminDeactivate

SpecSoft == InitSoft /\ [][NextSoft]_vars

\* the public routes, called while a pass fills the catalog and the admin
\* activates and deactivates rows; a request for a random image is in flight
\* from its count to its read
NextPublic ==
    \/ Alone("pass1") /\ SyncStep("pass1")
    \/ ~Busy("pass1") /\ AdminActivate
    \/ ~Busy("pass1") /\ AdminDeactivate
    \/ GetImages
    \/ GetImage
    \/ ~Busy("pass1") /\ RandomCount
    \/ RandomRead

SpecPublic == InitSoft /\ [][NextPublic]_vars

\* the admin API called by a client that logs in, lets its token expire or
\* sends other tokens, and asks for the image list, an activation, a
\* deactivation, a refresh or a deletion; a request is made when no handler
\* is in flight and a pass starts from POST /refresh only
NextAuth ==
    \/ AllIdle /\ Login
    \/ AllIdle /\ ClientToken
    \/ TokenExpires
    \/ AllIdle /\ AdminRejected
    \/ Admitted("/images") /\ AllIdle /\ AdminImages
    \/ Admitted("/images/:id/activate") /\ AllIdle /\ AdminActivate
    \/ Admitted("/images/:id/deactivate") /\ AllIdle /\ AdminDeactivate
    \/ Admitted("/refresh") /\ Alone("pass1") /\ SyncStart("pass1")
    \/ SyncList("pass1") \/ SyncFind("pass1") \/ SyncCreate("pass1")
    \/ SyncReactivate("pass1") \/ SyncDeactivate("pass1")
    \/ SyncReturn("pass1")
    \/ Admitted("/images/:id") /\ Alone(DeleteProc) /\ DeleteRequest
    \/ DeleteObject \/ DeleteRow

SpecAuth == InitSoft /\ [][NextAuth]_vars

\* the allocator over every value of its draw: the seed script, run once,
\* inserts its row and the public route is asked for the row's id
AllNums == 0..(IdSpace - 1)

NextIds ==
    \/ images = {} /\ SeedStart
    \/ SeedFind
    \/ SeedCreateWith(AllNums)
    \/ GetImageWith({r.id : r \in images})

SpecIds == InitSoft /\ [][NextIds]_vars

\* batched notifications (Shape B) of two records, delivered one at a time
BatchEvents == [key : {aJpg, bMp4}, eventName : {Created, Removed}]
QueuesBatch == {Jobs(<<e1, e2>>) : e1 \in BatchEvents, e2 \in BatchEvents}

NextBatch ==
    \/ Alone("hook1") /\ HookRequestWith("hook1", QueuesBatch)
    \/ Alone("hook1") /\ HookProcess("hook1")
    \/ Alone("hook1") /\ HookActivate("hook1")
    \/ Alone("hook1") /\ HookCreate("hook1")

SpecBatch == InitSoft /\ [][NextBatch]_vars

\* notifications with bodies of any form, delivered one at a time, while
\* the admin deactivates rows
NextShapes ==
    \/ Alone("hook1") /\ HookRequestOn("hook1", RawRequests)
    \/ Alone("hook1") /\ HookProcess("hook1")
    \/ Alone("hook1") /\ HookActivate("hook1")
    \/ Alone("hook1") /\ HookCreate("hook1")
    \/ AllIdle /\ AdminDeactivate

SpecShapes == InitSoft /\ [][NextShapes]_vars

\* single notifications with their record, about the seeded key and a.jpg,
\* delivered one at a time to a seeded catalog, while the admin toggles rows
RecordRequests ==
    {[queue |-> Jobs(<<rec>>), body |-> {rec}] :
        rec \in [key : {seedKey, aJpg}, eventName : {Created, Removed}]}

NextRecords ==
    \/ Alone(SeedProc) /\ SeedStep
    \/ Alone("hook1") /\ HookRequestOn("hook1", RecordRequests)
    \/ Alone("hook1") /\ HookProcess("hook1")
    \/ Alone("hook1") /\ HookActivate("hook1")
    \/ Alone("hook1") /\ HookCreate("hook1")
    \/ AllIdle /\ AdminActivate
    \/ AllIdle /\ AdminDeactivate

SpecRecords == InitSoft /\ [][NextRecords]_vars

\* passes, one at a time, over a bucket of up to three objects that changes
\* between them; a pass that is listing is given its next page in the end
InitList ==
    /\ InitSoft!1
    /\ bucket = {aJpg, bMp4, cTxt}
    /\ InitSoft!3
    /\ InitSoft!4
    /\ InitSoft!5
    /\ InitSoft!6
    /\ InitSoft!7
    /\ InitSoft!8
    /\ InitSoft!9
    /\ InitSoft!10
    /\ InitSoft!11
    /\ InitSoft!12
    /\ InitSoft!13
    /\ InitSoft!14
    /\ InitSoft!15
    /\ InitSoft!16
    /\ InitSoft!17

NextList ==
    \/ Alone("pass1") /\ SyncStep("pass1")
    \/ AllIdle /\ Environment

SpecList ==
    /\ InitList
    /\ [][NextList]_vars
    /\ WF_vars(Alone("pass1") /\ SyncList("pass1"))

\* passes and admin deletes, one at a time, while the feature is switched
\* on and off
NextDelete ==
    \/ Alone("pass1") /\ SyncStep("pass1")
    \/ Alone(DeleteProc) /\ DeleteRequest
    \/ Alone(DeleteProc) /\ DeleteObject
    \/ Alone(DeleteProc) /\ DeleteRow
    \/ Reconfigure

SpecDelete == InitSoft /\ [][NextDelete]_vars

\* a pass, created events about the two objects of the bucket and admin
\* deletes under any interleaving of their awaits, while the admin
\* deactivates rows; nothing is uploaded
NextStale ==
    \/ SyncStep("pass1")
    \/ HookRequestWith("hook1", QueuesSoft)
    \/ HookProcess("hook1")
    \/ HookActivate("hook1")
    \/ HookCreate("hook1")
    \/ DeleteRequest
    \/ DeleteObject
    \/ DeleteRow
    \/ AllIdle /\ AdminDeactivate

SpecStale == InitSoft /\ [][NextStale]_vars

\* a page is loaded on any of the addresses, over a catalog of two rows of
\* which any may be inactive
PageRows(actives) ==
    {[id |-> generateId(0), originalKey |-> aJpg, url |-> MakeUrl(aJpg),
      mediaType |-> "IMAGE", isActive |-> 0 \in actives],
     [id |-> generateId(1), originalKey |-> bMp4, url |-> MakeUrl(bMp4),
      mediaType |-> "VIDEO", isActive |-> 1 \in actives]}

InitPage ==
    /\ \E actives \in SUBSET {0, 1} : images = PageRows(actives)
    /\ InitSoft!2
    /\ InitSoft!3
    /\ InitSoft!4
    /\ InitSoft!5
    /\ InitSoft!6
    /\ InitSoft!7
    /\ InitSoft!8
    /\ InitSoft!9
    /\ InitSoft!10
    /\ InitSoft!11
    /\ InitSoft!12
    /\ InitSoft!13
    /\ InitSoft!14
    /\ InitSoft!15
    /\ InitSoft!16
    /\ \E id \in Addresses : ui = Page(id)

NextPage ==
    \/ ListArrives
    \/ LookupReturns
    \/ LogoLoads
    \/ IntroStep
    \/ IntroFadeCompletes
    \/ MouseEnter
    \/ MouseLeave
    \/ LayerLoads
    \/ TimelineCompletes
    \/ AppRenders

SpecPage == InitPage /\ [][NextPage]_vars

\* the scenario of a bucket that holds the object d+.png: notifications
\* about it arrive URL-encoded or not, passes and deliveries run one at a
\* time, and the object is removed and put back
InitKeys ==
    /\ images = {}
    /\ bucket = {dPlus}
    /\ enabled = TRUE
    /\ pc = [p \in Procs |-> "idle"]
    /\ attempts = [p \in Procs |-> 0]
    /\ arg = [p \in Procs |-> NoData]
    /\ sync = [p \in SyncProcs |-> NoSync]
    /\ hook = [p \in HookProcs |-> NoHook]
    /\ up = NoUp
    /\ del = NoDel
    /\ retired = {}
    /\ pub = NoPub
    /\ authorization = NoToken
    /\ lastPass = FALSE
    /\ last = NoLast
    /\ result = NoResult
    /\ ui = NoUi

ObjectPutBack ==
    /\ dPlus \notin bucket
    /\ bucket' = bucket \cup {dPlus}
    /\ sync' = Disturbed
    /\ lastPass' = FALSE
    /\ last' = NoLast
    /\ UNCHANGED <<images, enabled, pc, attempts, arg, hook, up, del, retired, ui, pub, authorization>>
    /\ result' = NoResult

NextKeys ==
    \/ Alone("pass1") /\ SyncStep("pass1")
    \/ Alone("hook1") /\ HookRequestWith("hook1", QueuesKeys)
    \/ Alone("hook1") /\ HookProcess("hook1")
    \/ Alone("hook1") /\ HookActivate("hook1")
    \/ Alone("hook1") /\ HookCreate("hook1")
    \/ AllIdle /\ ObjectRemove
    \/ AllIdle /\ ObjectPutBack

SpecKeys == InitKeys /\ [][NextKeys]_vars

(***************************************************************************)
(* Properties.                                                             *)
(***************************************************************************)
TypeOK ==
    /\ \A r \in images : r.id \in Ids /\ r.originalKey \in AllKeys
    /\ bucket \subseteq AllKeys
    /\ \A p \in Procs : attempts[p] \in 0..(maxRetries - 1)

\* C1: at every moment no two catalog rows have the same id, whatever the
\* interleaving of the handlers that allocate ids: two allocations in flight
\* for two different keys never both succeed with the same id
C1_UniqueId ==
    \A r1 \in images : \A r2 \in images : r1.id = r2.id => r1 = r2

\* the upload's allocation for a key without a row has been refused the id
\* that the row of another key holds, and goes round the loop
C1_Witness ==
    /\ pc[UploadProc] = "create"
    /\ attempts[UploadProc] > 0
    /\ RowsWithKey(images, arg[UploadProc].originalKey) = {}
    /\ RowsWithKey(images, aJpg) # {}

\* C2: at every moment at most one catalog row exists for any originalKey,
\* also when two writers race to insert the same new key
C2_UniqueKey ==
    \A key \in AllKeys : Cardinality(RowsWithKey(images, key)) <= 1

\* two writers raced to insert the same key: one row is there and the insert
\* of the loser has just been rejected on originalKey
C2_Witness ==
    /\ last.err = "P2002:originalKey"
    /\ Cardinality(RowsWithKey(images, aJpg)) = 1

\* C3: an id is permanent: among the rows of the catalog and the rows the
\* admin has deleted, an id belongs to one originalKey only, so an id that
\* was assigned once is never assigned later to a row of another key
C3_IdPermanent ==
    LET assigned == {<<r.id, r.originalKey>> : r \in images} \cup retired
    IN \A a \in assigned : \A b \in assigned : a[1] = b[1] => a[2] = b[2]

\* C4: a step of a pass, of the webhook handler or of the activation routes
\* keeps every row, changing at most its isActive, and a row it adds is an
\* active row of a key that had none: a registered key stays registered
C4_Transitions ==
    [][/\ \A r \in images : \E r2 \in images' : r2 = [r EXCEPT !.isActive = r2.isActive]
       /\ \A r2 \in images' :
            \/ \E r \in images : r2 = [r EXCEPT !.isActive = r2.isActive]
            \/ r2.isActive /\ RowsWithKey(images, r2.originalKey) = {}]_vars

\* a key was registered, its row was deactivated, and a delivery is about to
\* activate that row again
C4_Witness ==
    \E p \in HookProcs : \E r \in images :
        pc[p] = "activate" /\ hook[p].id = r.id /\ ~r.isActive

\* C5: a turn of createImageRecord for an originalKey that has a row ends
\* the call, without another draw, with the unique violation on originalKey
\* (or with a failure of the store itself), not with the exhaustion error,
\* and adds no row
C5_DuplicateSource ==
    [][\A p \in Procs :
        TurnOf(p) /\ RowsWithKey(images, arg[p].originalKey) # {}
        => /\ images' = images
           /\ last'.status = "thrown"
           /\ last'.err \in {"P2002:originalKey", "error"}]_vars

\* C6: createImageRecord terminates: a turn is the insert attempt number
\* attempts + 1 <= maxRetries; the loop goes round, with attempts one more,
\* only after the store answered with the collision on id; every other
\* failure ends the call at once; the collision of the last allowed attempt
\* ends the call with the exhaustion error; a failed turn inserts nothing
C6_BoundedRetry ==
    [][\A p \in Procs :
        TurnOf(p)
        => /\ attempts[p] < maxRetries
           /\ last'.status = "retry"
                => /\ last'.out = "id"
                   /\ attempts'[p] = attempts[p] + 1
                   /\ attempts'[p] < maxRetries
                   /\ pc'[p] = "create" /\ arg'[p] = arg[p]
           /\ last'.out \in {"originalKey", "error"} => last'.status = "thrown"
           /\ last'.out = "id" /\ attempts[p] + 1 = maxRetries
                => last'.status = "thrown" /\ last'.err = "exhausted"
           /\ last'.status \in {"retry", "thrown"} => images' = images]_vars

\* the tenth insert attempt of a call has collided on id: the call has just
\* raised the exhaustion error, and the catalog holds no row for its key
C6_Witness ==
    /\ last.err = "exhausted"
    /\ \E key \in AllKeys : Accepted(key) /\ RowsWithKey(images, key) = {}
    /\ images # {}

\* C7: a turn of createImageRecord that returns adds exactly one row, whose
\* originalKey is the requested key, and leaves every other row as it was; a
\* turn that goes round the loop or throws leaves the catalog as it was
C7_OneRowOrNone ==
    [][\A p \in Procs :
        TurnOf(p)
        => IF last'.status = "returned"
           THEN \E row \in images' \ images :
                    /\ images' = images \cup {row}
                    /\ row.originalKey = arg[p].originalKey
           ELSE images' = images]_vars

\* a call has just returned with its new row, next to the row that another
\* call added for another key
C7_Witness ==
    /\ last.status = "returned"
    /\ Cardinality(images) = 2

\* C8: when a pass that ran alone returns ok, every supported key of its
\* listing that had no row when the pass read the catalog has exactly one
\* row, and that row is active
C8_NewKeyRegistered ==
    \A p \in SyncProcs :
        AtReturn(p) /\ sync[p].isolated
        => \A key \in r2Keys(sync[p].objects) \ existingKeys(sync[p].existingImages) :
            /\ Cardinality(RowsWithKey(images, key)) = 1
            /\ \A r \in RowsWithKey(images, key) : r.isActive

\* a pass is returning ok after it registered a key of its listing
C8_Witness ==
    \E p \in SyncProcs :
        /\ AtReturn(p) /\ sync[p].isolated
        /\ sync[p].newCount > 0
        /\ r2Keys(sync[p].objects) \ existingKeys(sync[p].existingImages) # {}

\* C9: a pass that started right after a pass returned ok, with no bucket
\* change and no other writer in between or meanwhile, returns newCount = 0,
\* reactivatedCount = 0, deactivatedCount = 0 and the catalog as it found it
C9_Idempotent ==
    \A p \in SyncProcs :
        AtReturn(p) /\ sync[p].isolated /\ sync[p].prev
        => /\ sync[p].newCount = 0
           /\ sync[p].reactivatedCount = 0
           /\ sync[p].deactivatedCount = 0
           /\ images = sync[p].before

\* the second of two passes in a row is returning, over a catalog with an
\* active row of a listed key and an inactive row of a key that is not listed
C9_Witness ==
    \E p \in SyncProcs :
        /\ AtReturn(p) /\ sync[p].isolated /\ sync[p].prev
        /\ \E r \in images : r.isActive /\ r.originalKey \in r2Keys(sync[p].objects)
        /\ \E r \in images : ~r.isActive /\ r.originalKey \notin r2Keys(sync[p].objects)

\* C10: when a pass that ran alone returns ok, every row it found is still
\* the only row of its key, with its id and url; it is inactive when the key
\* is not in the listing and active when it is: a row whose object went
\* away is deactivated, and when the object is back that same row is
\* activated again and no row is added for the key
C10_SameRecord ==
    \A p \in SyncProcs :
        AtReturn(p) /\ sync[p].isolated
        => \A r \in sync[p].before :
            /\ RowsWithKey(images, r.originalKey) =
                    {[r EXCEPT !.isActive = r.originalKey \in r2Keys(sync[p].objects)]}

\* a pass is returning after it reactivated the row of a key that is back
\* in the bucket, next to a row it deactivated because its object is gone
C10_Witness ==
    \E p \in SyncProcs :
        /\ AtReturn(p) /\ sync[p].isolated
        /\ sync[p].reactivatedCount > 0
        /\ sync[p].deactivatedCount > 0

\* C11: in a step of a pass, of the webhook handler or of the activation
\* routes, a row that is still there under its id or its originalKey has the
\* id, originalKey, url and mediaType it had: an update changes isActive only
C11_OnlyIsActive ==
    [][\A r \in images : \A r2 \in images' :
        r2.id = r.id \/ r2.originalKey = r.originalKey
        => /\ r2.id = r.id
           /\ r2.originalKey = r.originalKey
           /\ r2.url = r.url
           /\ r2.mediaType = r.mediaType]_vars

\* a pass has activated an inactive row again, and the row has the url and
\* the mediaType that it was created with
C11_Witness ==
    \E p \in SyncProcs : \E r \in images :
        /\ AtReturn(p) /\ sync[p].reactivatedCount > 0
        /\ r.isActive
        /\ r.url = MakeUrl(r.originalKey)
        /\ r.mediaType = getMediaType(r.originalKey)

\* C12: a pass whose listing throws on a page ends there: it reports
\* ok = false, not skipped, and the catalog is as the pass found it; a pass
\* goes on to read the catalog only with a listing that holds every key of
\* the bucket, never with what a failed listing left
C12_ListingFailure ==
    [][\A p \in SyncProcs :
        /\ pc[p] = "list" /\ pc'[p] = "idle"
            => /\ images' = images
               /\ sync[p].isolated => images' = sync[p].before
               /\ result' = SyncFailed("list")
        /\ pc[p] = "list" /\ pc'[p] \notin {"list", "idle"} /\ sync[p].isolated
            => {sync'[p].objects[n] : n \in 1..Len(sync'[p].objects)} = bucket]_vars

\* the listing of a pass has just thrown, there is more than one object in
\* the bucket, and a row is active
C12_Witness ==
    /\ result = SyncFailed("list")
    /\ Cardinality(bucket) > PageSize
    /\ \E r \in images : r.isActive

\* C13: a step of a pass turns a row inactive only in the deactivation loop,
\* when no page of the listing is outstanding and every supported key of
\* the listing has an active row (the add loop is over); the key of the row
\* is on no page of the listing
C13_DeactivateLast ==
    [][\A p \in SyncProcs : \A r \in images :
        /\ pc[p] # "idle"
        /\ r.isActive
        /\ \E r2 \in images' : r2.originalKey = r.originalKey /\ ~r2.isActive
        => /\ pc[p] = "deactivate"
           /\ sync[p].token = 0
           /\ \A k \in bucket : getMediaType(k) # "null"
                => \E r3 \in images : r3.originalKey = k /\ r3.isActive
           /\ r.originalKey \notin bucket
           /\ \A n \in 1..Len(sync[p].objects) :
                sync[p].objects[n] # r.originalKey]_vars

\* a pass that listed more than one page, and created or reactivated a row,
\* has deactivated a row
C13_Witness ==
    \E p \in SyncProcs :
        /\ AtReturn(p)
        /\ Len(sync[p].objects) > PageSize
        /\ sync[p].newCount + sync[p].reactivatedCount > 0
        /\ sync[p].deactivatedCount > 0

\* C14: when a pass that ran with no other writer ends in failure, every
\* row that was active when the pass started is still active
C14_NoPartialDeactivation ==
    [][\A p \in SyncProcs :
        /\ pc[p] # "idle" /\ pc'[p] = "idle"
        /\ sync[p].isolated
        /\ result'.kind = "sync" /\ ~result'.ok
        => \A r \in sync[p].before : r.isActive
            => \E r2 \in images' : r2.id = r.id /\ r2.isActive]_vars

C16_Converges ==
    \A p \in SyncProcs :
        AtReturn(p) /\ sync[p].isolated
        => /\ \A k \in bucket : getMediaType(k) # "null"
                => /\ Cardinality({r \in images : r.originalKey = k}) = 1
                   /\ \A r \in images : r.originalKey = k => r.isActive
           /\ \A r \in images :
                (r.originalKey \notin bucket \/ getMediaType(r.originalKey) = "null")
                => ~r.isActive
           /\ \A r1, r2 \in images :
                (r1.id = r2.id \/ r1.originalKey = r2.originalKey) => r1 = r2

\* such a pass found the row of a key of the bucket inactive, as a removal
\* applied after the creation leaves it, and returns with the row active
C16_Witness ==
    \E p \in SyncProcs :
        /\ AtReturn(p) /\ sync[p].isolated
        /\ \E r \in sync[p].before :
            /\ ~r.isActive /\ r.originalKey \in bucket
            /\ \E r2 \in images : r2.id = r.id /\ r2.isActive

C18_ExactCounts ==
    \A p \in SyncProcs :
        AtReturn(p)
        => /\ sync[p].newCount = sync[p].created
           /\ sync[p].reactivatedCount = sync[p].activated
           /\ sync[p].deactivatedCount = sync[p].deactivated

\* C19: no row of the catalog has the key c.txt, the row of a.jpg is an
\* IMAGE and the row of b.mp4 a VIDEO; a pass over the bucket a.jpg, b.mp4,
\* c.txt that ran with no other writer returns ok with exactly two rows,
\* both active: a.jpg as IMAGE and b.mp4 as VIDEO
C19_Unsupported ==
    /\ \A r \in images :
        /\ r.originalKey # cTxt
        /\ r.originalKey = aJpg => r.mediaType = "IMAGE"
        /\ r.originalKey = bMp4 => r.mediaType = "VIDEO"
    /\ \A p \in SyncProcs :
        AtReturn(p) /\ sync[p].isolated /\ bucket = {aJpg, bMp4, cTxt}
        => /\ Cardinality(images) = 2
           /\ {[originalKey |-> r.originalKey, mediaType |-> r.mediaType,
                isActive |-> r.isActive] : r \in images}
              = {[originalKey |-> aJpg, mediaType |-> "IMAGE", isActive |-> TRUE],
                 [originalKey |-> bMp4, mediaType |-> "VIDEO", isActive |-> TRUE]}

\* a pass over the three keys that started from the empty catalog is
\* returning ok with two rows created
C19_Witness ==
    \E p \in SyncProcs :
        /\ AtReturn(p) /\ sync[p].isolated
        /\ sync[p].before = {}
        /\ bucket = {aJpg, bMp4, cTxt}
        /\ Len(sync[p].objects) = 3
        /\ sync[p].newCount = 2

\* C20: a webhook request whose secret is not the configured one is
\* answered 403, never 200, and the handler stops there: no record of the
\* body is queued, no invocation moves and the catalog is not touched
C20_WrongSecret ==
    [][result'.kind = "webhook" /\ result'.secret # WEBHOOK_SECRET
        => /\ result'.code = 403
           /\ images' = images
           /\ pc' = pc /\ hook' = hook
           /\ attempts' = attempts /\ arg' = arg]_vars

\* a request with a wrong secret has just been rejected while the feature
\* is enabled and the catalog holds a row
C20_Witness ==
    /\ result = Reply(403, "bad")
    /\ enabled
    /\ images # {}

\* C21 as stated: every request with the configured secret is answered 200
C21_AlwaysAcknowledged ==
    [][result'.kind = "webhook" /\ result'.secret = WEBHOOK_SECRET
        => result'.code = 200]_vars

\* C21: while ENABLE_R2_SYNC is true every request with the configured
\* secret is answered 200, whatever its body, in a step that leaves the
\* catalog alone and the handler before its first catalog call; a reply is
\* sent by no step of a handler that is processing, also not by one that
\* fails
C21_AckBeforeProcessing ==
    [][result'.kind = "webhook"
        => /\ result'.secret = WEBHOOK_SECRET /\ enabled
                => /\ result'.code = 200
                   /\ images' = images
                   /\ \A p \in HookProcs :
                        pc[p] = "idle" => pc'[p] \in {"idle", "process"}
           /\ \A p \in HookProcs :
                pc[p] # "idle" => pc'[p] = pc[p] /\ hook'[p] = hook[p]]_vars

\* a request has just been acknowledged and its handler is about to make
\* its first catalog call
C21_Witness ==
    /\ result = Reply(200, WEBHOOK_SECRET)
    /\ \E p \in HookProcs : pc[p] = "process" /\ hook[p].queue # << >>

\* C22: every row the catalog holds for the object d+.png, whose
\* notifications carry its key URL-encoded or as it is, has the key of the
\* object, the one a pass stores for it, as its originalKey
C22_StoredKeyIsObjectKey ==
    \A r \in images : r.originalKey = dPlus

\* C23: the step of a webhook handler that processes a removed event for
\* the key K either throws and leaves the catalog as it was, or clears
\* isActive on the row whose originalKey is K and leaves every other row and
\* the number of rows as they were, and goes on with the rest of the body;
\* when K has no row the catalog stays as it was
C23_Removed ==
    [][\A p \in HookProcs :
        /\ pc[p] = "process"
        /\ pc'[p] # pc[p] \/ hook'[p] # hook[p]
        /\ Head(hook[p].queue).isRemoved
        => LET K == Head(hook[p].queue).key
           IN /\ result' \in {HookDone("removed"), HookDone("thrown")}
              /\ result' = HookDone("thrown") => images' = images
              /\ result' = HookDone("removed")
                    => /\ \A r \in images : r.originalKey # K => r \in images'
                       /\ \A r \in images : r.originalKey = K
                            => [r EXCEPT !.isActive = FALSE] \in images'
                       /\ Cardinality(images') = Cardinality(images)
                       /\ hook'[p].queue = Tail(hook[p].queue)
              /\ (\A r \in images : r.originalKey # K) => images' = images]_vars

\* a removed event has just been processed without an error for a key that
\* has no row: the rows of the catalog are all active
C23_Witness ==
    /\ result = HookDone("removed")
    /\ images # {}
    /\ \A r \in images : r.isActive

\* C24: when a webhook handler is through with a created event for a key
\* that has a row, whatever the key's extension, no row was added and the
\* row of the key is active; here the key is that of the seeded row, which
\* has no extension, and the handler is through with the event in the step
\* that acknowledges it
C24_CreatedActivates ==
    [][result' = Reply(200, WEBHOOK_SECRET) /\ pc'["hook1"] = "idle"
        => /\ Cardinality(images') = Cardinality(images)
           /\ \A r \in images : r.originalKey = seedKey
                => [r EXCEPT !.isActive = TRUE] \in images']_vars

\* C25: a processKey call for an event that returns leaves the catalog as
\* the event wants it (removed: no active row for the key; created: an
\* active row for the key), and every step of a processKey call for an
\* event, taken when the catalog is already as the event wants it, leaves
\* the catalog as it is: the second of two deliveries of a notification,
\* one after the other or interleaved, changes nothing
C25_Idempotent ==
    [][\A p \in HookProcs :
        /\ pc[p] \in {"process", "activate", "create"}
        /\ <<pc[p], hook[p], attempts[p]>>' # <<pc[p], hook[p], attempts[p]>>
        => LET job == Head(hook[p].queue)
               Done(imgs) ==
                    IF job.isRemoved
                    THEN \A r \in imgs : r.originalKey = job.key => ~r.isActive
                    ELSE \E r \in imgs : r.originalKey = job.key /\ r.isActive
           IN /\ result' \in {HookDone("removed"), HookDone("kept"),
                              HookDone("activated"), HookDone("created")}
                    => Done(images')
              /\ Done(images) => images' = images]_vars

\* two deliveries of a created event for one key were interleaved: the
\* insert of the second one has just been rejected, and the key has its
\* one row, active
C25_Witness ==
    /\ result = HookDone("thrown")
    /\ last.out = "originalKey"
    /\ \E r \in images : r.originalKey = aJpg /\ r.isActive
    /\ \A r \in images : r.originalKey = aJpg

\* C26: a row the admin has deactivated, whose object stays in the bucket,
\* is made active again by the admin only: a step that turns an inactive
\* row active is no step of a pass or of a webhook handler (here every
\* inactive row was deactivated by the admin, and the admin acts while no
\* pass and no handler is in flight)
C26_SoftDeleteStays ==
    [][(\E r \in images : ~r.isActive /\ [r EXCEPT !.isActive = TRUE] \in images')
        => \A p \in Procs : pc[p] = "idle"]_vars

\* C27: the public routes serve active rows only.  A 200 reply of
\* GET /images carries exactly the active rows; GET /images/random answers
\* 200 with an active row or 404 when no row is active; GET /images/:id
\* answers 404 when no row has the id, 410 when the row is inactive and 200
\* with the row when it is active
C27_OnlyActive ==
    [][/\ result'.kind = "GET /images" /\ result'.code = 200
            => result'.body = {Select(r) : r \in Active(images)}
       /\ result'.kind = "GET /images/random" /\ result'.code = 200
            => \E r \in Active(images) : result'.body = {Select(r)}
       /\ result'.kind = "GET /images/random" /\ result'.code = 404
            => Active(images) = {}
       /\ result'.kind = "GET /images/:id" /\ result'.code \in {200, 404, 410}
            => /\ result'.code = 404 <=> RowsWithId(images, result'.id) = {}
               /\ result'.code = 410 <=>
                    \E r \in RowsWithId(images, result'.id) : ~r.isActive
               /\ result'.code = 200 <=>
                    \E r \in RowsWithId(images, result'.id) :
                        r.isActive /\ result'.body = {Select(r)}]_vars

\* C28: a handler of an admin route other than login starts (an invocation
\* leaves idle, the activation routes change a row, the image list is
\* answered) only in a step whose request carries a token that jwtVerify
\* accepts and whose role is admin; login answers 200 with a token only to
\* the configured password, and the client gets a fresh admin token from
\* such a reply only
C28_AdminOnly ==
    [][/\ (\/ \E p \in Procs : pc[p] = "idle" /\ pc'[p] # "idle"
           \/ AllIdle /\ images' # images
           \/ result'.kind = "/images" /\ result'.code \in {200, 500}
           \/ result'.kind = "sync" /\ result'.skipped)
            => /\ authorization.signed /\ ~authorization.expired
               /\ authorization.role = "admin"
       /\ result'.kind = LoginRoute /\ result'.code = 200
            => /\ result'.secret = ADMIN_PASSWORD
               /\ result'.body = {authorization'}
       /\ (/\ authorization' # authorization
           /\ authorization'.signed /\ ~authorization'.expired
           /\ authorization'.role = "admin")
            => /\ result'.kind = LoginRoute /\ result'.code = 200
               /\ result'.secret = ADMIN_PASSWORD]_vars

C28_Witness ==
    /\ result = AdminReply("/images/:id/deactivate", 403, << >>, {})
    /\ \E r \in images : ~r.isActive
    /\ authorization.signed /\ authorization.role = "user"

\* C29: every id the allocator gives a row is a string of exactly 5 decimal
\* digits whose value is in 0..99999 and whose leading zeros pad the draw,
\* and the public route GET /images/:id takes it: the answer to a request
\* for the id of a row is not the 400 of the schema and not 404
C29_FiveDigits ==
    \A r \in images :
        /\ Len(r.id) = 5
        /\ \A i \in 1..5 : \E d \in 1..10 : DigitChars[d] = r.id[i]
        /\ StringToNum(r.id) \in 0..99999
        /\ r.id = generateId(StringToNum(r.id))
        /\ result.kind = "GET /images/:id" /\ result.id = r.id
                => result.code \in {200, 410, 500}

C29_Witness ==
    /\ \E r \in images : r.id = <<"0", "0", "0", "0", "7">>
    /\ result.kind = "GET /images/:id" /\ result.code = 200
    /\ result.id = <<"0", "0", "0", "0", "7">>

\* C30: when the createImageRecord call of a pass ends with the unique
\* violation on originalKey (another writer registered the key after the
\* pass's findMany), the pass adds nothing for the key and goes on to its
\* next await or to its ok return: it does not end with the result of the
\* catch block
C30_DuplicateSwallowed ==
    [][\A p \in SyncProcs :
        TurnOf(p) /\ last'.err = "P2002:originalKey"
        => /\ images' = images
           /\ pc'[p] \in {"create", "reactivate", "deactivate", "return"}
           /\ result' # SyncFailed("create")]_vars

\* C31: a failure while processing one record of a batch drops that record
\* only: the handler goes on with the records behind it, in array order
C31_OnlyOneDropped ==
    [][\A p \in HookProcs :
        /\ pc[p] \in {"process", "activate", "create"}
        /\ <<pc[p], hook[p], attempts[p]>>' # <<pc[p], hook[p], attempts[p]>>
        /\ result' = HookDone("thrown")
        => /\ images' = images
           /\ hook'[p].queue = Tail(hook[p].queue)
           /\ pc'[p] = IF Tail(hook[p].queue) = << >> THEN "idle"
                       ELSE "process"]_vars

\* the records of a body as the claims read it: Shape A is a string key (a
\* non-empty one when nonEmpty), Shape B an array Records, else nothing
ShapeRecords(body, nonEmpty) ==
    IF body.key.type = "string" /\ (nonEmpty => body.key.value # << >>)
    THEN <<[key |-> body.key.value, eventName |-> body.eventName]>>
    ELSE IF body.Records.type = "array" THEN body.Records.value
    ELSE << >>

\* a record that may change the catalog: it has a key, and its event is a
\* creation, a removal, or has no name
MayChange(rec) ==
    /\ rec.key # << >>
    /\ \/ rec.eventName = NoEvent
       \/ includes(rec.eventName, "ObjectCreated")
       \/ includes(rec.eventName, "ObjectRemoved")

\* what is left to do for records: a removal for an event named so, a
\* creation for the others that may change the catalog, in order
ShapeJobs(records) ==
    LET sel == SelectSeq(records, MayChange)
    IN [i \in 1..Len(sel) |->
            [key |-> normalizeKey(sel[i].key),
             isRemoved |-> includes(sel[i].eventName, "ObjectRemoved")]]

\* the step in which an accepted notification with this body is taken up
\* leaves the catalog alone and leaves these jobs to the handler
TakenUpAs(body, jobs) ==
    /\ images' = images
    /\ hook'["hook1"].queue = jobs
    /\ pc'["hook1"] = IF jobs = << >> THEN "idle" ELSE "process"

\* C32 (as stated): a body of neither shape, a record without key and an
\* event that is neither creation nor removal change nothing; Shape A
\* without eventName is a creation; a body with a string key is handled as
\* Shape A whatever else it has
C32_Shapes ==
    [][\A body \in RawBodies :
        result'.kind = "webhook" /\ result'.code = 200 /\ result'.body = {body}
        => TakenUpAs(body, ShapeJobs(ShapeRecords(body, FALSE)))]_vars

\* C32 (amended): the same, Shape A being a body with a non-empty string key
C32_ShapesNonEmptyKey ==
    [][\A body \in RawBodies :
        result'.kind = "webhook" /\ result'.code = 200 /\ result'.body = {body}
        => TakenUpAs(body, ShapeJobs(ShapeRecords(body, TRUE)))]_vars

C32_Witness ==
    /\ result = HookDone("created")
    /\ \E r \in images : r.originalKey = aJpg
    /\ \A r \in images : r.originalKey # bMp4

\* C33: a created event for K leaves the record for K as a pass whose
\* listing contains K does, a removed event as a pass whose listing lacks K
\* (existence, isActive, originalKey, url, mediaType), for every K and every
\* catalog state: both when processKey returns at once and when it returns
\* after its catalog calls
C33_SameAsPass ==
    [][/\ \A rec \in [key : {seedKey, aJpg}, eventName : {Created, Removed}] :
            /\ result'.kind = "webhook" /\ result'.body = {rec}
            /\ hook'["hook1"].queue = << >>
            => RecordFor(images', rec.key)
                 = RecordAfterPass(images, rec.key, rec.eventName = Created)
       /\ /\ pc["hook1"] \in {"process", "activate", "create"}
          /\ result'.kind = "processKey"
          /\ result'.at \in {"removed", "kept", "activated", "created"}
          => LET job == Head(hook["hook1"].queue)
             IN RecordFor(images', job.key)
                  = RecordAfterPass(images, job.key, ~job.isRemoved)]_vars

InBucket(key) == key \in bucket

\* C34: the listing of a pass asks for its pages one after another, each
\* request after the first for what follows the page before; it goes on
\* exactly while a page brings a token, and ends with the objects of all
\* pages in page order, which are the objects of the bucket; a request that
\* fails ends the pass with an error and no list; a listing always ends
C34_Listing ==
    /\ [][LET p == "pass1"
              all == SelectSeq(KeyOrder, InBucket)
              got == sync[p].objects
              gets == sync'[p].objects
          IN pc[p] = "list" /\ <<pc[p], sync[p]>>' # <<pc[p], sync[p]>>
             => \/ /\ pc'[p] = "idle"
                   /\ sync'[p] = NoSync
                   /\ result' = SyncFailed("list")
                   /\ images' = images
                \/ /\ pc'[p] \in {"list", "find"}
                   /\ got = SubSeq(all, 1, Len(got))
                   /\ gets = SubSeq(all, 1, Len(gets))
                   /\ Len(gets) - Len(got) \in 0..PageSize
                   /\ Len(gets) = Len(got) => all = << >>
                   /\ (got = << >>) = (sync[p].token = 0)
                   /\ (pc'[p] = "list") = (sync'[p].token # 0)
                   /\ (pc'[p] = "find") = (gets = all)]_vars
    /\ (pc["pass1"] = "list" ~> pc["pass1"] # "list")

\* the listing of a bucket of three objects has just ended, after three
\* pages
C34_Witness ==
    /\ pc["pass1"] = "find"
    /\ Cardinality(bucket) = 3
    /\ Len(sync["pass1"].objects) = 3
    /\ PageSize = 1

\* the steps of an admin delete of a row: the row goes only in the step that
\* follows the deletion of its object, which is then in the bucket no more,
\* and the reply is 200; when the deletion of the object fails, catalog and
\* bucket stay as they are and the reply is 500
DeleteInOrder ==
    /\ images' # images
        => /\ pc[DeleteProc] = "deleteRow"
           /\ del.originalKey \notin bucket
           /\ images' = images \ RowsWithId(images, del.id)
           /\ result' = DeleteReply(del.id, 200)
    /\ pc'[DeleteProc] = "deleteRow" => del'.originalKey \notin bucket'
    /\ pc[DeleteProc] = "deleteObject" /\ pc'[DeleteProc] = "idle"
        => /\ images' = images
           /\ bucket' = bucket
           /\ result' = DeleteReply(del.id, 500)

\* a delete request for an id that no row has changes neither the catalog
\* nor the bucket, and is answered code
NoRecord(code) ==
    /\ pc[DeleteProc] = "idle"
    /\ result'.kind = "delete"
    /\ RowsWithId(images, result'.id) = {}
    => /\ result'.code = code
       /\ images' = images
       /\ bucket' = bucket

\* C35 (as stated): an admin delete removes the row only after the object
\* has been deleted from the bucket; if deleting the object fails the row is
\* left unchanged and the request reports failure; deleting an id with no
\* record reports 'not found' and changes neither catalog nor bucket
C35_DeleteOrder ==
    [][pc[DeleteProc] # pc'[DeleteProc] \/ result'.kind = "delete"
        => DeleteInOrder /\ NoRecord(404)]_vars

\* C35 (amended): the same while the sync feature is enabled; while it is
\* disabled every delete request is answered 400 and changes nothing
C35_DeleteOrderEnabled ==
    [][pc[DeleteProc] # pc'[DeleteProc] \/ result'.kind = "delete"
        => /\ DeleteInOrder
           /\ NoRecord(IF enabled THEN 404 ELSE 400)
           /\ ~enabled => /\ images' = images
                          /\ bucket' = bucket
                          /\ result'.code = 400]_vars

\* an admin delete has just removed the row of a.jpg and its object
C35_Witness ==
    /\ result.kind = "delete" /\ result.code = 200
    /\ \E x \in retired : x[2] = aJpg
    /\ aJpg \notin bucket
    /\ \A r \in images : r.originalKey # aJpg

\* C36: once an admin delete of the record for K has succeeded, and K is
\* not uploaded again, the catalog has no record for K any more, whatever
\* pass or created event is still in flight or comes later
C36_DeletedStaysDeleted ==
    \A x \in retired :
        x[2] \notin bucket => RowsWithKey(images, x[2]) = {}

\* C37: hover on the logo is enabled only after the intro sequence has
\* completed (every step and the fade) and the first gallery cycle has
\* completed; until then the overlay takes no pointer events and the
\* tagline is never revealed; once enabled, hover is never disabled
C37_HoverGate ==
    [][/\ ui'.hoverEnabled
            => /\ ui'.introComplete /\ ui'.stage = 7
               /\ ui'.firstCycleComplete /\ ui'.cycleCount >= 1
       /\ ~ui'.hoverEnabled
            => pointerEvents(ui') = "none" /\ ui'.tagline # "full"
       /\ ui.hoverEnabled => ui'.hoverEnabled]_vars

\* hover is enabled and the pointer over the logo has revealed the tagline
C37_Witness ==
    /\ ui.route = "gallery"
    /\ ui.hoverEnabled
    /\ ui.tagline = "full"

\* the intro: the steps and the fade complete in order, and introComplete
\* is set once, by the completion of the fade
IntroInOrder ==
    /\ ui'.stage # ui.stage => ui'.stage = ui.stage + 1
    /\ ui'.introCalls # ui.introCalls
            => ui.stage = 6 /\ ui'.stage = 7 /\ ui'.introCalls = 1
    /\ ui'.introComplete = (ui'.introCalls = 1)
    /\ ui'.introComplete => ui'.stage = 7 /\ ui'.introFinished

\* C38 (as stated): no gallery image is rendered before the intro
\* completes: Gallery is mounted only once introComplete is true, and
\* introComplete is set exactly once, only after all intro steps and the
\* final background fade have finished in order
C38_IntroGate ==
    [][/\ ui'.mounted => ui'.introComplete
       /\ IntroInOrder]_vars

\* C38 (amended): the same on the gallery routes "/" and "/:id"; the
\* admin route mounts its Gallery without an intro
C38_IntroGateOnGalleryRoutes ==
    [][/\ ui'.route = "gallery" /\ ui'.mounted => ui'.introComplete
       /\ ui'.route = "admin" => ~ui'.introComplete /\ ui'.stage = 0
       /\ IntroInOrder]_vars

\* the Gallery of a gallery route is mounted, before its first cycle
C38_Witness ==
    /\ ui.route = "gallery"
    /\ ui.mounted
    /\ ui.introComplete
    /\ ui.cycleCount = 0

\* C39: on the route of a valid 5-digit id the gallery is locked to that
\* image: the image shown is the one of the id and never changes, the
\* active layer never switches and the address is never replaced; when the
\* id has no active record, no image is shown and, once the intro is over
\* and no request is outstanding, 'not found' is shown; in rotation mode
\* each completed cycle switches the active layer and toggles the zoom
\* direction
C39_Locked ==
    [][/\ ui'.route = "gallery" /\ SingleModeOf(ui'.id)
            => /\ ui'.mounted
                    => /\ ui'.currentImg.id = ui'.id
                       /\ ui'.activeLayer = "A"
                       /\ ui.mounted => ui'.currentImg = ui.currentImg
               /\ ui'.replaced = 0 /\ ui'.address = ui'.id
               /\ fetchImageById(ui'.id) = {}
                    => /\ ~ui'.mounted
                       /\ /\ ui'.introComplete
                          /\ ui'.listState = "done"
                          /\ ui'.lookup # "pending"
                          => Shown(ui') = "not found"
       /\ ui'.mounted /\ ~ui'.singleMode /\ ui'.cycleCount # ui.cycleCount
            => /\ ui'.activeLayer # ui.activeLayer
               /\ ui'.zoomIn # ui.zoomIn]_vars

====
